---------------------------- MODULE Spec2Model ----------------------------
(***************************************************************************)
(* Roll-call attendance engine (src/src/App.js): the retrying write        *)
(* pipeline (retryOperation), the roster mirror kept by the onSnapshot     *)
(* subscription of App, the attendance toggles (handleScanSuccess,         *)
(* handleManualStatusToggle), the administrative writers (seedRoster,      *)
(* handleReset, executeRosterUpload), the scanner view                     *)
(* (EnhancedScannerView) and the import parser (parseRosterData).          *)
(*                                                                         *)
(* Eleven specifications share the variables:                              *)
(*   SpecRetry  one run of retryOperation against an arbitrary operation;  *)
(*   Spec       the App component against the remote collection;           *)
(*   SpecSeed   the App at start-up with seedRoster writing all of         *)
(*              INITIAL_ROSTER, and no other handler;                      *)
(*   SpecToggle the App with scans and manual toggles only, and rejected   *)
(*              calls enough to use up the attempts of retryOperation;     *)
(*   SpecScan   one mounted scanner view with a clock in milliseconds;     *)
(*   SpecSession the scanner view with its error callback, its retry and   *)
(*              flash buttons and a device without cameras;                *)
(*   SpecSessionFair SpecSession in which the promises of the device API   *)
(*              settle and the due effects and timers run;                 *)
(*   SpecParse  parseRosterData applied to a text of RosterDisplay;        *)
(*   SpecDetect detectCameras applied to the list of devices;              *)
(*   SpecReset  the App with a toggle, an upload and a handleReset that    *)
(*              runs while no other handler does;                          *)
(*   SpecDebounce the scanner view in front of two different QR codes.     *)
(***************************************************************************)
EXTENDS Integers, Sequences, FiniteSets, TLC

VARIABLES
    \* ---- SpecRetry: one call of retryOperation ----
    rt,          \* the frame of retryOperation: arguments, loop index, position
    opLog,       \* what each invocation of operation() did, in order
    sleepLog,    \* the delay of every setTimeout retryOperation awaited, in order
    \* ---- Spec: the App component and the remote roster collection ----
    remote,      \* the remote collection: document key -> document data (NoDoc if none)
    clock,       \* the server clock that resolves serverTimestamp()
    db,          \* authData.db is set (useFirebaseAuth)
    roster,      \* App's roster state: the local snapshot, an array of entries
    listener,    \* the roster effect: "none", "timer" (300 ms pending), "attached",
                 \* "failed" (ended by permission-denied), "broken" (ended by
                 \* another error), "off" (cleaned up)
    notify,      \* a change notification is waiting to be delivered to onSnapshot
    lastDelivered, \* what the most recently delivered notification held
    tasks,       \* the handler invocations started so far, each with its position
    toggled,     \* per document key: the toggle writes applied to it since the
                 \* last write of another kind (the latest two are kept)
    faults,      \* remote calls rejected so far
    scope,       \* what a behaviour may hold: how many entries of
                 \* INITIAL_ROSTER are seeded, how many events may happen,
                 \* how many scanner initializations and decodes, how long
    newRosterText, \* the text area of RosterDisplay (useState, line 206), a
                 \* sequence of characters
    parsed,      \* what parseRosterData returned to handleTextUpload: empty
                 \* before the call, then <<[rosterData, errorCount]>>
    \* ---- SpecScan: one EnhancedScannerView ----
    scannerState,     \* the scannerState of the view (useState, line 504)
    selectedCameraId, \* the selectedCameraId of the view (Null before detection)
    libLoaded,        \* window.Html5Qrcode is defined
    mounted,          \* the view is mounted
    effectDeps,       \* the values initializeScanner and stopScanner closed over
                      \* when the mount effect last ran
    retryTimeoutRef,  \* the 500 ms timer of checkAndInit is pending
    instances,        \* every call of initializeScanner, with the Html5Qrcode it
                      \* creates and the values its callbacks closed over
    html5QrCodeRef,   \* html5QrCodeRef.current: an index of instances, or Null
    stopping,         \* calls of stop() whose promise has not settled
    timers,           \* due times of the pending resume timers
    now,              \* Date.now(), in ms
    decodes           \* every decode event delivered to onScanSuccess, in order

retryVars == <<rt, opLog, sleepLog>>

parseVars == <<newRosterText, parsed>>

appVars == <<remote, clock, db, roster, listener, notify, lastDelivered, tasks,
             toggled, faults, scope,
             parseVars>>

scanVars == <<scannerState, selectedCameraId, libLoaded, mounted, effectDeps,
              retryTimeoutRef, instances, html5QrCodeRef, stopping, timers, now,
              decodes>>

vars == <<rt, opLog, sleepLog, remote, clock, db, roster, listener, notify,
          lastDelivered, tasks, toggled, faults, scope, newRosterText,
          parsed, scannerState,
          selectedCameraId,
          libLoaded, mounted, effectDeps, retryTimeoutRef, instances,
          html5QrCodeRef, stopping, timers, now, decodes>>

-----------------------------------------------------------------------------
\* Bounds of the model.

\* largest maxRetries argument tried (the callers pass 3 and the default 5)
MaxRetriesArg == 5

\* Spec and SpecToggle: entries of INITIAL_ROSTER seeded
MaxSeed == 1

\* events per behaviour: user operations started (scans, manual toggles,
\* resets, uploads) plus remote calls rejected
MaxEvents == 2

\* SpecSeed: entries of INITIAL_ROSTER seeded, and remote calls rejected
SeedRunSeeds == 6
SeedRunFaults == 5

\* SpecToggle: toggles started plus remote calls rejected
ToggleRunEvents == 4

\* calls of initializeScanner per behaviour of SpecScan
MaxInits == 3

\* decode events per behaviour of SpecScan
MaxDecodes == 2

\* the clock of SpecScan stops here (ms)
MaxTime == 4000

\* SpecSession: calls of initializeScanner, decode events, end of the clock
SessionInits == 2
SessionDecodes == 1
SessionTime == 4000

-----------------------------------------------------------------------------
\* retryOperation (App.js 142-160)

\* error.code values an operation can reject with; "none" is an error object
\* without a code property (a TypeError, say)
ErrorCodes == {"permission-denied", "unavailable", "not-found", "none"}

\* every error code taken for a transient one
IsTransient_any(code) == code = code

\* the retry condition of line 147, without the last-attempt disjunct
IsTransient(code) == code = "permission-denied" \/ code = "unavailable"

\* Math.pow(2, i)
RECURSIVE Pow2(_)
Pow2(i) == IF i = 0 THEN 1 ELSE 2 * Pow2(i - 1)

\* a linear backoff instead of the exponential one
Backoff_linear(delay, i) == delay * (i + 1)

\* line 152
Backoff(delay, i) == delay * Pow2(i)

\* the frame at entry: the for loop of line 143 runs its body only if
\* 0 < maxRetries, otherwise the function falls off its end and resolves
\* with undefined
RetryStart(maxRetries, delay) ==
    [ max    |-> maxRetries,
      delay  |-> delay,
      i      |-> 0,
      pc     |-> IF 0 < maxRetries THEN "call" ELSE "returned",
      result |-> "undefined",
      error  |-> "undefined",
      timer  |-> 0 ]

\* the loop body without the last-attempt test of lines 147-151: it sleeps
\* after the final attempt too and the loop then runs out
retryOperation_noLastAttempt(r, outcome) ==
    IF outcome.ok
    THEN [r EXCEPT !.pc = "returned", !.result = outcome]
    ELSE IF IsTransient(outcome.code)
         THEN [r EXCEPT !.pc = "sleep", !.timer = Backoff(r.delay, r.i)]
         ELSE [r EXCEPT !.pc = "thrown", !.error = outcome]

\* One turn of the loop body, lines 144-158: `outcome` is how the awaited
\* operation() settled: [ok |-> TRUE, val |-> v] or [ok |-> FALSE, code |-> c, ...].
retryOperation(r, outcome) ==
    IF outcome.ok
    THEN [r EXCEPT !.pc = "returned", !.result = outcome]
    ELSE IF IsTransient(outcome.code) \/ r.i = r.max - 1
         THEN IF r.i = r.max - 1
              THEN [r EXCEPT !.pc = "thrown", !.error = outcome]
              ELSE [r EXCEPT !.pc = "sleep", !.timer = Backoff(r.delay, r.i)]
         ELSE [r EXCEPT !.pc = "thrown", !.error = outcome]

\* the timer of line 154 fires: i++ and the next turn of the loop (i < max
\* holds, since the sleep is only reached with i < max - 1)
retryWake(r) ==
    [r EXCEPT !.i = r.i + 1, !.timer = 0,
              !.pc = IF r.i + 1 < r.max THEN "call" ELSE "returned"]

-----------------------------------------------------------------------------
\* The remote roster collection and the documents in it.

\* lastScan: null
Null == 0

\* a numeric field (lastScan, createdAt) that a document does not have
Missing == -1

\* no document under a key: every field undefined
NoDoc ==
    [ id |-> "undefined", name |-> "undefined", status |-> "undefined",
      lastScan |-> Missing, createdAt |-> Missing ]

\* lines 165-172
INITIAL_ROSTER ==
    << [id |-> "RC-1001", name |-> "Alfie Johnson"],
       [id |-> "RC-1002", name |-> "Brenda Chen"],
       [id |-> "RC-1003", name |-> "Charlie Davis"],
       [id |-> "RC-1004", name |-> "Diana Evans"],
       [id |-> "RC-0000", name |-> "Error Test Person"],
       [id |-> "RC-1005", name |-> "Ethan Foster"] >>

\* the entries of INITIAL_ROSTER the model seeds (its first scope.seeds ones)
SeedPeople ==
    SubSeq(INITIAL_ROSTER, 1,
           IF scope.seeds < Len(INITIAL_ROSTER) THEN scope.seeds
           ELSE Len(INITIAL_ROSTER))

\* the entries of INITIAL_ROSTER that some specification seeds
Seedable ==
    LET n == IF MaxSeed > SeedRunSeeds THEN MaxSeed ELSE SeedRunSeeds
    IN  SubSeq(INITIAL_ROSTER, 1,
               IF n < Len(INITIAL_ROSTER) THEN n ELSE Len(INITIAL_ROSTER))

\* an id that the default roster does not hold (the placeholder of line 410)
OtherId == "P001"

\* the document keys of the collection path ROSTER_COLLECTION_PATH
DocKeys == {Seedable[i].id : i \in 1..Len(Seedable)} \cup {OtherId}

\* the order of document keys in a query snapshot (by key, ascending)
KeyRank(k) ==
    CASE k = "P001"    -> 1
      [] k = "RC-0000" -> 2
      [] k = "RC-1001" -> 3
      [] k = "RC-1002" -> 4
      [] k = "RC-1003" -> 5
      [] k = "RC-1004" -> 6
      [] k = "RC-1005" -> 7

RECURSIVE SortedKeys(_)
SortedKeys(S) ==
    IF S = {} THEN <<>>
    ELSE LET m == CHOOSE k \in S : \A o \in S : KeyRank(k) <= KeyRank(o)
         IN  <<m>> \o SortedKeys(S \ {m})

\* snapshot.docs of getDocs(query(rosterRef)) and of an onSnapshot notification
QueryDocs(rem) ==
    LET ks == SortedKeys({k \in DOMAIN rem : rem[k] # NoDoc})
    IN  [i \in 1..Len(ks) |-> [key |-> ks[i], data |-> rem[ks[i]]]]

\* setDoc(ref, data): the document is replaced
SetDocFull(rem, key, data) == [rem EXCEPT ![key] = data]

\* setDoc(ref, {status, lastScan}, {merge: true}): the two fields are written
\* into the document, which is created if there is none
SetDocMerge(rem, key, status, lastScan) ==
    [rem EXCEPT ![key] = [@ EXCEPT !.status = status, !.lastScan = lastScan]]

\* deleteDoc(ref)
DeleteDoc(rem, key) == [rem EXCEPT ![key] = NoDoc]

\* the document seedRoster and executeRosterUpload write for a person
NewAttendee(person, ts) ==
    [ id |-> person.id, name |-> person.name, status |-> "absent",
      lastScan |-> Null, createdAt |-> ts ]

\* ---- the roster mirror (App roster effect, lines 1069-1105) ----

\* the callback keeps the previous entries and adds the notification's
updatedRoster_merge(old, docs) ==
    old \o [i \in 1..Len(docs) |-> [docs[i].data EXCEPT !.id = docs[i].key]]

\* the callback takes the id from the document data instead of the key
updatedRoster_dataId(old, docs) ==
    [i \in 1..Len(docs) |-> docs[i].data]

\* lines 1082-1086: snapshot.docs.map(doc => ({...doc.data(), id: doc.id})),
\* which setRoster makes the whole new state (`old` is not used)
updatedRoster(old, docs) ==
    [i \in 1..Len(docs) |-> [docs[i].data EXCEPT !.id = docs[i].key]]

\* the error callback clears the roster on a permission error
onSnapshotError_clear(old, code) ==
    IF code = "permission-denied" THEN <<>> ELSE old

\* lines 1088-1096: the error callback only logs; the roster state is not set
onSnapshotError(old, code) == old

\* ---- handler invocations ----

\* the frame of one handler invocation (kind: "scan", "manual", "reset",
\* "upload", "seed")
NewTask(kind, maxRetries, delay) ==
    [ kind      |-> kind,
      pc        |-> "retry",
      id        |-> "undefined",
      person    |-> NoDoc,
      newStatus |-> "undefined",
      r         |-> RetryStart(maxRetries, delay),
      phase     |-> "none",
      entries   |-> <<>>,
      targets   |-> <<>>,
      calls     |-> <<>>,
      k         |-> 0,
      msgs      |-> <<>> ]

\* the state in which the App has not started
AppIdle ==
    /\ remote = [k \in DocKeys |-> NoDoc]
    /\ clock = 0
    /\ db = FALSE
    /\ roster = <<>>
    /\ listener = "none"
    /\ notify = FALSE
    /\ lastDelivered = [any |-> FALSE, docs |-> <<>>]
    /\ tasks = <<>>
    /\ toggled = [k \in DocKeys |-> <<>>]
    /\ faults = 0
    /\ scope = [seeds |-> 0, events |-> 0,
                inits |-> MaxInits, decodes |-> MaxDecodes, time |-> MaxTime]

\* the state in which nothing was typed into the text area of RosterDisplay
ParseIdle ==
    /\ newRosterText = <<>>
    /\ parsed = <<>>

\* lines 504-513: the scannerState a view is mounted with
InitialScannerState ==
    [ isInitializing |-> TRUE,
      isRunning      |-> FALSE,
      isPaused       |-> FALSE,
      hasPermission  |-> "null",
      error          |-> "null",
      lastScanTime   |-> Null,
      scanCount      |-> 0,
      flashOn        |-> FALSE ]

\* the values the callbacks of a render close over: the dependencies of
\* stopScanner (line 551) and of initializeScanner (line 702)
Closure(isRunning, lastScanTime, cameraId) ==
    [ set |-> TRUE, isRunning |-> isRunning, lastScanTime |-> lastScanTime,
      selectedCameraId |-> cameraId ]

\* no effect has run yet
NoClosure == [Closure(FALSE, Null, Null) EXCEPT !.set = FALSE]

\* the state in which no scanner view was ever mounted
ScanIdle ==
    /\ scannerState = InitialScannerState
    /\ selectedCameraId = Null
    /\ libLoaded = FALSE
    /\ mounted = FALSE
    /\ effectDeps = NoClosure
    /\ retryTimeoutRef = FALSE
    /\ instances = <<>>
    /\ html5QrCodeRef = Null
    /\ stopping = 0
    /\ timers = <<>>
    /\ now = 0
    /\ decodes = <<>>

-----------------------------------------------------------------------------
\* SpecRetry: retryOperation run against an operation that settles any way.

\* the delays the callers pass (500 at every call site, 1000 by default)
DelayArgs == {500, 1000}

\* how the n-th invocation of operation() can settle
Outcomes(n) ==
    {[ok |-> TRUE, val |-> n, code |-> "undefined"]}
    \cup {[ok |-> FALSE, val |-> n, code |-> c] : c \in ErrorCodes}

\* no call of retryOperation under observation
RetryIdle ==
    /\ rt = RetryStart(0, 0)
    /\ opLog = <<>>
    /\ sleepLog = <<>>

InitRetry ==
    /\ \E m \in 1..MaxRetriesArg, d \in DelayArgs : rt = RetryStart(m, d)
    /\ opLog = <<>>
    /\ sleepLog = <<>>
    /\ AppIdle
    /\ ScanIdle
    /\ ParseIdle

\* await operation() settles (line 145), and the catch block runs
RetryInvoke ==
    /\ rt.pc = "call"
    /\ \E o \in Outcomes(Len(opLog) + 1) :
          /\ rt' = retryOperation(rt, o)
          /\ opLog' = Append(opLog, o)
          /\ UNCHANGED <<sleepLog, appVars, scanVars>>

\* the backoff timer fires (line 154)
RetryTimer ==
    /\ rt.pc = "sleep"
    /\ rt' = retryWake(rt)
    /\ sleepLog' = Append(sleepLog, rt.timer)
    /\ UNCHANGED <<opLog, appVars, scanVars>>

NextRetry == RetryInvoke \/ RetryTimer

SpecRetry == InitRetry /\ [][NextRetry]_vars

\* ---- claims about retryOperation ----

FailedTransient(o) == ~o.ok /\ (o.code = "permission-denied" \/ o.code = "unavailable")

\* C1: when the first k invocations fail with a transient error (k < maxRetries)
\* and invocation k+1 succeeds, retryOperation has returned that result, the
\* operation was invoked exactly k+1 times and exactly k sleeps happened, of
\* delay*2^0, delay*2^1, ..., delay*2^(k-1) milliseconds in that order.
C1_ReturnsAfterTransientFailures ==
    \A k \in 0..(rt.max - 1) :
        ( /\ Len(opLog) >= k + 1
          /\ \A j \in 1..k : FailedTransient(opLog[j])
          /\ opLog[k + 1].ok )
        => /\ rt.pc = "returned"
           /\ rt.result = opLog[k + 1]
           /\ Len(opLog) = k + 1
           /\ sleepLog = [j \in 1..k |-> rt.delay * (2 ^ (j - 1))]

\* three transient failures, then success: slept delay, 2*delay, 4*delay
C1_Witness ==
    /\ rt.pc = "returned"
    /\ Len(opLog) = 4
    /\ opLog[4].ok
    /\ rt.result = opLog[4]
    /\ sleepLog = <<rt.delay, 2 * rt.delay, 4 * rt.delay>>

\* C2: when every invocation fails with a transient error, retryOperation never
\* returns a result, invokes the operation at most maxRetries times, and once
\* the maxRetries-th invocation has failed it has thrown that invocation's
\* error after exactly maxRetries-1 sleeps (none after the final attempt).
C2_ExhaustedAfterMaxAttempts ==
    /\ Len(opLog) <= rt.max
    /\ (\A j \in 1..Len(opLog) : FailedTransient(opLog[j]))
        => /\ rt.pc # "returned"
           /\ Len(sleepLog) <= rt.max - 1
           /\ (rt.pc = "thrown") <=> (Len(opLog) = rt.max)
           /\ rt.pc = "thrown"
                => /\ rt.error = opLog[rt.max]
                   /\ Len(sleepLog) = rt.max - 1
                   /\ rt.timer = 0

\* three attempts, all failed with a transient error: thrown after two sleeps
C2_Witness ==
    /\ rt.max = 3
    /\ rt.pc = "thrown"
    /\ Len(opLog) = 3
    /\ \A j \in 1..3 : FailedTransient(opLog[j])
    /\ rt.error = opLog[3]
    /\ Len(sleepLog) = 2

\* C3: an invocation that fails with a code that is neither permission-denied
\* nor unavailable is the last invocation: retryOperation has thrown that very
\* error, with no timer set and no sleep after it, on whichever attempt.
C3_NonTransientPropagatesAtOnce ==
    \A j \in 1..Len(opLog) :
        (~opLog[j].ok /\ ~FailedTransient(opLog[j]))
        => /\ j = Len(opLog)
           /\ rt.pc = "thrown"
           /\ rt.error = opLog[j]
           /\ rt.timer = 0
           /\ Len(sleepLog) = j - 1

\* a non-transient failure on the second of five attempts
C3_Witness ==
    /\ rt.max = 5
    /\ Len(opLog) = 2
    /\ FailedTransient(opLog[1])
    /\ ~opLog[2].ok /\ opLog[2].code = "not-found"
    /\ rt.pc = "thrown"

-----------------------------------------------------------------------------
\* Spec: the App component against the remote collection.

\* how a remote call settles, as retryOperation sees it
OkOutcome == [ok |-> TRUE, val |-> 0, code |-> "undefined"]
Fail(c) == [ok |-> FALSE, val |-> 0, code |-> c]

\* the codes a remote call is rejected with: one that retryOperation retries
\* and one that it does not
FailCodes == {"unavailable", "internal"}

\* the codes the subscription reports to the error callback
FeedErrorCodes == {"permission-denied", "internal"}

\* setScanMessage / setUploadMessage / console outcome of a handler
Msg(type, text, who, what) == [type |-> type, text |-> text, who |-> who, what |-> what]

UserOps == Cardinality({t \in 1..Len(tasks) : tasks[t].kind # "seed"})

\* the change feed: a listener that is attached is notified of every change
Feed(rem2) == notify \/ (listener = "attached" /\ rem2 # remote)

\* the budget of events is not used up
MayHappen == UserOps + faults < scope.events

\* the views are rendered (isAuthReady, lines 1278-1289) and not unmounted
Rendered == db /\ listener \notin {"none", "off"}

\* the history of toggles of document `key` once task t's write is applied
Applied(t, key, rem2) ==
    IF tasks[t].kind \in {"scan", "manual"}
    THEN [toggled EXCEPT ![key] =
            (IF Len(@) = 2 THEN Tail(@) ELSE @) \o
            << [ task |-> t, pre |-> remote[key], post |-> rem2[key],
                 seen |-> tasks[t].person.status ] >>]
    ELSE [toggled EXCEPT ![key] = <<>>]

\* the collection the App finds when it starts: empty, or seeded by an
\* earlier run
InitRemotes ==
    { [k \in DocKeys |-> NoDoc],
      [k \in DocKeys |->
          IF \E i \in 1..Len(SeedPeople) : SeedPeople[i].id = k
          THEN NewAttendee([id |-> k,
                            name |-> SeedPeople[CHOOSE i \in 1..Len(SeedPeople) :
                                                  SeedPeople[i].id = k].name], 1)
          ELSE NoDoc] }

Init ==
    /\ RetryIdle
    /\ ScanIdle
    /\ ParseIdle
    /\ scope = [seeds |-> MaxSeed, events |-> MaxEvents]
    /\ remote \in InitRemotes
    /\ clock = 1
    /\ db = FALSE
    /\ roster = <<>>
    /\ listener = "none"
    /\ notify = FALSE
    /\ lastDelivered = [any |-> FALSE, docs |-> <<>>]
    /\ tasks = <<>>
    /\ toggled = [k \in DocKeys |-> <<>>]
    /\ faults = 0

\* ---- useFirebaseAuth and the roster effect ----

\* lines 108-118: the auth state listener publishes db and isAuthReady
onAuthStateChanged ==
    /\ ~db
    /\ db' = TRUE
    /\ UNCHANGED <<remote, clock, roster, listener, notify, lastDelivered, tasks,
                   toggled, faults, retryVars, scanVars, scope, parseVars>>

\* lines 1069-1097: the effect body: seedRoster(db) is started and the
\* listener is scheduled 300 ms later
RosterEffect ==
    /\ db
    /\ listener = "none"
    /\ listener' = "timer"
    /\ tasks' = Append(tasks, NewTask("seed", 5, 1000))
    /\ UNCHANGED <<remote, clock, db, roster, notify, lastDelivered, toggled,
                   faults, retryVars, scanVars, scope, parseVars>>

\* the timer callback runs although the cleanup has cleared the timer
ListenerTimeout_uncleared ==
    /\ listener \in {"timer", "off"}
    /\ listener' = "attached"
    /\ notify' = TRUE
    /\ UNCHANGED <<remote, clock, db, roster, lastDelivered, tasks, toggled,
                   faults, retryVars, scanVars, scope, parseVars>>

\* lines 1080-1097: the 300 ms timer fires and onSnapshot attaches; the
\* store owes the new listener its first snapshot
ListenerTimeout ==
    /\ listener = "timer"
    /\ listener' = "attached"
    /\ notify' = TRUE
    /\ UNCHANGED <<remote, clock, db, roster, lastDelivered, tasks, toggled,
                   faults, retryVars, scanVars, scope, parseVars>>

\* lines 1081-1087: a notification is delivered to the snapshot callback
DeliverSnapshot ==
    /\ listener = "attached"
    /\ notify
    /\ roster' = updatedRoster(roster, QueryDocs(remote))
    /\ lastDelivered' = [any |-> TRUE, docs |-> QueryDocs(remote)]
    /\ notify' = FALSE
    /\ UNCHANGED <<remote, clock, db, listener, tasks, toggled, faults,
                   retryVars, scanVars, scope, parseVars>>

\* lines 1088-1096: the subscription fails and the error callback runs; a
\* listener that has reported an error receives no further events
FeedError ==
    /\ listener = "attached"
    /\ \E code \in FeedErrorCodes :
          /\ roster' = onSnapshotError(roster, code)
          /\ listener' = IF code = "permission-denied" THEN "failed" ELSE "broken"
    /\ notify' = FALSE
    /\ UNCHANGED <<remote, clock, db, lastDelivered, tasks, toggled, faults,
                   retryVars, scanVars, scope, parseVars>>

\* lines 1099-1104: the effect's cleanup
EffectCleanup ==
    /\ listener \in {"timer", "attached", "failed", "broken"}
    /\ listener' = "off"
    /\ notify' = FALSE
    /\ UNCHANGED <<remote, clock, db, roster, lastDelivered, tasks, toggled,
                   faults, retryVars, scanVars, scope, parseVars>>

\* ---- seedRoster (lines 174-199) ----

\* what follows `await retryOperation(...)` in seedRoster: nothing on
\* success, the catch of line 196 on failure
seedDone(task) ==
    IF task.r.pc \in {"returned", "thrown"} THEN [task EXCEPT !.pc = "done"]
    ELSE task

\* the operation without the snapshot.empty test of line 182
SeedStep_alwaysSeeds(t) ==
    /\ t \in 1..Len(tasks)
    /\ tasks[t].kind = "seed" /\ tasks[t].pc = "retry" /\ tasks[t].r.pc = "call"
    /\ \/ /\ tasks[t].k = 0
          /\ tasks' = [tasks EXCEPT ![t] =
                IF Len(SeedPeople) > 0
                THEN [@ EXCEPT !.k = 1]
                ELSE seedDone([@ EXCEPT !.r = retryOperation(@, OkOutcome)])]
          /\ UNCHANGED <<remote, clock, notify, toggled, faults>>
       \/ /\ tasks[t].k >= 1
          /\ LET person == SeedPeople[tasks[t].k]
                 rem2 == SetDocFull(remote, person.id, NewAttendee(person, clock + 1))
             IN  /\ remote' = rem2
                 /\ clock' = clock + 1
                 /\ notify' = Feed(rem2)
                 /\ toggled' = Applied(t, person.id, rem2)
                 /\ tasks' = [tasks EXCEPT ![t] =
                       IF tasks[t].k < Len(SeedPeople)
                       THEN [@ EXCEPT !.k = @ + 1]
                       ELSE seedDone([@ EXCEPT !.r = retryOperation(@, OkOutcome)])]
          /\ UNCHANGED faults
       \/ /\ MayHappen
          /\ faults' = faults + 1
          /\ \E c \in FailCodes :
                tasks' = [tasks EXCEPT ![t] =
                   seedDone([@ EXCEPT !.r = retryOperation(@, Fail(c)), !.k = 0])]
          /\ UNCHANGED <<remote, clock, notify, toggled>>
    /\ UNCHANGED <<db, roster, listener, lastDelivered, retryVars, scanVars, scope, parseVars>>

\* one await of the operation of lines 178-195 settles: getDocs (k = 0) or
\* the setDoc of person k
SeedStep(t) ==
    /\ t \in 1..Len(tasks)
    /\ tasks[t].kind = "seed" /\ tasks[t].pc = "retry" /\ tasks[t].r.pc = "call"
    /\ \/ /\ tasks[t].k = 0
          /\ tasks' = [tasks EXCEPT ![t] =
                IF Len(QueryDocs(remote)) = 0 /\ Len(SeedPeople) > 0
                THEN [@ EXCEPT !.k = 1]
                ELSE seedDone([@ EXCEPT !.r = retryOperation(@, OkOutcome)])]
          /\ UNCHANGED <<remote, clock, notify, toggled, faults>>
       \/ /\ tasks[t].k >= 1
          /\ LET person == SeedPeople[tasks[t].k]
                 rem2 == SetDocFull(remote, person.id, NewAttendee(person, clock + 1))
             IN  /\ remote' = rem2
                 /\ clock' = clock + 1
                 /\ notify' = Feed(rem2)
                 /\ toggled' = Applied(t, person.id, rem2)
                 /\ tasks' = [tasks EXCEPT ![t] =
                       IF tasks[t].k < Len(SeedPeople)
                       THEN [@ EXCEPT !.k = @ + 1]
                       ELSE seedDone([@ EXCEPT !.r = retryOperation(@, OkOutcome)])]
          /\ UNCHANGED faults
       \/ /\ MayHappen
          /\ faults' = faults + 1
          /\ \E c \in FailCodes :
                tasks' = [tasks EXCEPT ![t] =
                   seedDone([@ EXCEPT !.r = retryOperation(@, Fail(c)), !.k = 0])]
          /\ UNCHANGED <<remote, clock, notify, toggled>>
    /\ UNCHANGED <<db, roster, listener, lastDelivered, retryVars, scanVars, scope, parseVars>>

\* ---- attendance toggles (lines 1108-1191) ----

\* every toggle marks the attendee present
NewStatus_present(person) == "present"

\* lines 1126 and 1162
NewStatus(person) == IF person.status = "present" THEN "absent" ELSE "present"

\* the QR payloads presented to the scanner: the id of a default attendee
\* and an id that is in the roster only after an upload
ScanPayloads == {"RC-1001", OtherId}

\* the handler writes without looking the payload up
handleScanSuccess_noLookup(scannedId) ==
    /\ Rendered
    /\ MayHappen
    /\ tasks' = Append(tasks,
          [NewTask("scan", 3, 500) EXCEPT !.id = scannedId, !.newStatus = "present"])
    /\ UNCHANGED <<remote, clock, db, roster, listener, notify, lastDelivered,
                   toggled, faults, retryVars, scanVars, scope, parseVars>>

\* lines 1108-1130: lookup in the roster of the current render
handleScanSuccess(scannedId) ==
    /\ Rendered
    /\ MayHappen
    /\ LET hits == {i \in 1..Len(roster) : roster[i].id = scannedId}
       IN  IF hits = {}
           THEN tasks' = Append(tasks,
                   [NewTask("scan", 3, 500) EXCEPT
                       !.id = scannedId, !.pc = "done",
                       !.msgs = <<Msg("error", "not-found", scannedId, "none")>>])
           ELSE LET person == roster[CHOOSE i \in hits : \A j \in hits : i <= j]
                IN  tasks' = Append(tasks,
                       [NewTask("scan", 3, 500) EXCEPT
                           !.id = scannedId, !.person = person,
                           !.newStatus = NewStatus(person)])
    /\ UNCHANGED <<remote, clock, db, roster, listener, notify, lastDelivered,
                   toggled, faults, retryVars, scanVars, scope, parseVars>>

\* lines 1158-1166: a row of the rendered roster is tapped
handleManualStatusToggle(i) ==
    /\ Rendered
    /\ MayHappen
    /\ i \in 1..Len(roster)
    /\ tasks' = Append(tasks,
          [NewTask("manual", 3, 500) EXCEPT
              !.id = roster[i].id, !.person = roster[i],
              !.newStatus = NewStatus(roster[i])])
    /\ UNCHANGED <<remote, clock, db, roster, listener, notify, lastDelivered,
                   toggled, faults, retryVars, scanVars, scope, parseVars>>

\* the manual toggle writes the status alone
toggleWrite_noLastScan(rem, task, ts) ==
    IF task.kind = "manual"
    THEN SetDocMerge(rem, task.id, task.newStatus, rem[task.id].lastScan)
    ELSE SetDocMerge(rem, task.id, task.newStatus, ts)

\* the write is issued without {merge: true}
toggleWrite_replace(rem, task, ts) ==
    SetDocFull(rem, task.id,
               [NoDoc EXCEPT !.status = task.newStatus, !.lastScan = ts])

\* lines 1132-1135 and 1168-1171: the merge write of {status, lastScan}
toggleWrite(rem, task, ts) == SetDocMerge(rem, task.id, task.newStatus, ts)

\* the handler reports success whenever retryOperation is over
toggleDone_optimistic(task) ==
    IF task.r.pc \in {"returned", "thrown"}
    THEN [task EXCEPT !.pc = "done",
            !.msgs = Append(@, Msg(IF task.kind = "scan" THEN "success" ELSE "warning",
                                   "toggled", task.person.name, task.newStatus))]
    ELSE task

\* lines 1137-1150 and 1173-1186: the outcome reported after the await
toggleDone(task) ==
    IF task.r.pc = "returned"
    THEN [task EXCEPT !.pc = "done",
            !.msgs = Append(@, Msg(IF task.kind = "scan" THEN "success" ELSE "warning",
                                   "toggled", task.person.name, task.newStatus))]
    ELSE IF task.r.pc = "thrown"
    THEN [task EXCEPT !.pc = "done",
            !.msgs = Append(@, Msg("error", "failed", task.person.name, "none"))]
    ELSE task

\* the setDoc of a toggle settles, and the handler goes on
ToggleSettles(t) ==
    /\ t \in 1..Len(tasks)
    /\ tasks[t].kind \in {"scan", "manual"}
    /\ tasks[t].pc = "retry" /\ tasks[t].r.pc = "call"
    /\ \/ /\ LET rem2 == toggleWrite(remote, tasks[t], clock + 1)
             IN  /\ remote' = rem2
                 /\ clock' = clock + 1
                 /\ notify' = Feed(rem2)
                 /\ toggled' = Applied(t, tasks[t].id, rem2)
          /\ tasks' = [tasks EXCEPT ![t] =
                toggleDone([@ EXCEPT !.r = retryOperation(@, OkOutcome)])]
          /\ UNCHANGED faults
       \/ /\ MayHappen
          /\ faults' = faults + 1
          /\ \E c \in FailCodes :
                tasks' = [tasks EXCEPT ![t] =
                   toggleDone([@ EXCEPT !.r = retryOperation(@, Fail(c))])]
          /\ UNCHANGED <<remote, clock, notify, toggled>>
    /\ UNCHANGED <<db, roster, listener, lastDelivered, retryVars, scanVars, scope, parseVars>>

\* the backoff timer of a handler's retryOperation fires (line 154)
TaskTimer(t) ==
    /\ t \in 1..Len(tasks)
    /\ tasks[t].pc = "retry" /\ tasks[t].r.pc = "sleep"
    /\ tasks' = [tasks EXCEPT ![t].r = retryWake(@)]
    /\ UNCHANGED <<remote, clock, db, roster, listener, notify, lastDelivered,
                   toggled, faults, retryVars, scanVars, scope, parseVars>>

\* ---- batches of concurrent calls (handleReset, executeRosterUpload) ----

Pending(n) == [i \in 1..n |-> "pending"]

\* the await of Promise.all(batch) inside retryOperation: fulfilled when
\* every call of the batch is, rejected as soon as one call is rejected
BatchOutcomes(calls) ==
    IF \A i \in 1..Len(calls) : calls[i] = "ok"
    THEN {OkOutcome}
    ELSE {Fail(calls[i]) : i \in {j \in 1..Len(calls) : calls[j] \notin {"pending", "ok"}}}

\* lines 330-339: one merge write per rendered attendee, all issued at once
handleReset(confirmed) ==
    /\ Rendered
    /\ MayHappen
    /\ Len(roster) > 0
    /\ tasks' = Append(tasks,
          IF confirmed
          THEN [NewTask("reset", 3, 500) EXCEPT
                   !.targets = [i \in 1..Len(roster) |->
                                   [id |-> roster[i].id, name |-> roster[i].name]],
                   !.calls = Pending(Len(roster))]
          ELSE [NewTask("reset", 3, 500) EXCEPT !.pc = "done"])
    /\ UNCHANGED <<remote, clock, db, roster, listener, notify, lastDelivered,
                   toggled, faults, retryVars, scanVars, scope, parseVars>>

\* what parseRosterData hands to executeRosterUpload: no entry, one entry,
\* two entries, two entries with the same id
UploadInputs ==
    { <<>>,
      << [id |-> OtherId, name |-> "John Doe"] >>,
      << [id |-> "RC-1001", name |-> "Alfie Johnson"],
         [id |-> OtherId, name |-> "John Doe"] >>,
      << [id |-> OtherId, name |-> "John Doe"],
         [id |-> OtherId, name |-> "Jane Smith"] >> }

\* the handler without the length test of lines 255-259
executeRosterUpload_noValidation(dataToUpload, confirmed) ==
    /\ Rendered
    /\ MayHappen
    /\ tasks' = Append(tasks,
          IF ~confirmed
          THEN [NewTask("upload", 3, 500) EXCEPT !.pc = "done", !.entries = dataToUpload]
          ELSE [NewTask("upload", 3, 500) EXCEPT
                   !.pc = "read", !.entries = dataToUpload,
                   !.msgs = <<Msg("info", "processing", "none", "none")>>])
    /\ UNCHANGED <<remote, clock, db, roster, listener, notify, lastDelivered,
                   toggled, faults, retryVars, scanVars, scope, parseVars>>

\* lines 252-267
executeRosterUpload(dataToUpload, confirmed) ==
    /\ Rendered
    /\ MayHappen
    /\ tasks' = Append(tasks,
          IF Len(dataToUpload) = 0
          THEN [NewTask("upload", 3, 500) EXCEPT
                   !.pc = "done",
                   !.msgs = <<Msg("error", "no-valid-entries", "none", "none")>>]
          ELSE IF ~confirmed
          THEN [NewTask("upload", 3, 500) EXCEPT !.pc = "done", !.entries = dataToUpload]
          ELSE [NewTask("upload", 3, 500) EXCEPT
                   !.pc = "read", !.entries = dataToUpload,
                   !.msgs = <<Msg("info", "processing", "none", "none")>>])
    /\ UNCHANGED <<remote, clock, db, roster, listener, notify, lastDelivered,
                   toggled, faults, retryVars, scanVars, scope, parseVars>>

\* lines 270-272: getDocs settles; on success one deleteDoc per document
\* read is issued, all at once; a rejection goes to the catch of line 290
UploadRead(t) ==
    /\ t \in 1..Len(tasks)
    /\ tasks[t].kind = "upload" /\ tasks[t].pc = "read"
    /\ \/ /\ LET docs == QueryDocs(remote)
             IN  tasks' = [tasks EXCEPT ![t] =
                    [@ EXCEPT !.pc = "retry", !.phase = "delete",
                              !.targets = [i \in 1..Len(docs) |->
                                              [id |-> docs[i].key,
                                               name |-> docs[i].data.name]],
                              !.calls = Pending(Len(docs))]]
          /\ UNCHANGED faults
       \/ /\ MayHappen
          /\ faults' = faults + 1
          /\ tasks' = [tasks EXCEPT ![t] =
                [@ EXCEPT !.pc = "done",
                          !.msgs = Append(@, Msg("error", "critical", "none", "none"))]]
    /\ UNCHANGED <<remote, clock, db, roster, listener, notify, lastDelivered,
                   toggled, retryVars, scanVars, scope, parseVars>>

\* what call i of the batch of task t writes when the store applies it
callWrite(rem, task, i, ts) ==
    IF task.kind = "reset"
    THEN SetDocMerge(rem, task.targets[i].id, "absent", Null)
    ELSE IF task.phase = "delete"
    THEN DeleteDoc(rem, task.targets[i].id)
    ELSE SetDocFull(rem, task.targets[i].id, NewAttendee(task.targets[i], ts))

\* one call of a batch settles, whether or not its handler still waits
CallSettles(t, i) ==
    /\ t \in 1..Len(tasks)
    /\ i \in 1..Len(tasks[t].calls)
    /\ tasks[t].calls[i] = "pending"
    /\ \/ /\ LET rem2 == callWrite(remote, tasks[t], i, clock + 1)
             IN  /\ remote' = rem2
                 /\ notify' = Feed(rem2)
                 /\ toggled' = Applied(t, tasks[t].targets[i].id, rem2)
          /\ clock' = IF tasks[t].phase = "create" THEN clock + 1 ELSE clock
          /\ tasks' = [tasks EXCEPT ![t].calls[i] = "ok"]
          /\ UNCHANGED faults
       \/ /\ MayHappen
          /\ faults' = faults + 1
          /\ \E c \in FailCodes : tasks' = [tasks EXCEPT ![t].calls[i] = c]
          /\ UNCHANGED <<remote, clock, notify, toggled>>
    /\ UNCHANGED <<db, roster, listener, lastDelivered, retryVars, scanVars, scope, parseVars>>

\* the upload goes on to its creates when the delete phase has thrown
batchDone_createsAnyway(task) ==
    IF task.r.pc \notin {"returned", "thrown"} THEN task
    ELSE IF task.kind = "upload" /\ task.phase = "delete"
    THEN [task EXCEPT !.phase = "create",
                      !.targets = task.entries,
                      !.calls = Pending(Len(task.entries)),
                      !.r = RetryStart(3, 500)]
    ELSE IF task.r.pc = "thrown"
    THEN [task EXCEPT !.pc = "done",
            !.msgs = IF task.kind = "upload"
                     THEN Append(@, Msg("error", "critical", "none", "none"))
                     ELSE @]
    ELSE [task EXCEPT !.pc = "done",
            !.msgs = IF task.kind = "upload"
                     THEN Append(@, Msg("info", "uploaded", "none", Len(task.entries)))
                     ELSE @]

\* what follows `await retryOperation(() => Promise.all(batch), 3, 500)`:
\* lines 343-346 in handleReset, lines 274-293 in executeRosterUpload (the
\* creates are issued once the delete phase has returned)
batchDone(task) ==
    IF task.r.pc = "thrown"
    THEN [task EXCEPT !.pc = "done",
            !.msgs = IF task.kind = "upload"
                     THEN Append(@, Msg("error", "critical", "none", "none"))
                     ELSE @]
    ELSE IF task.r.pc # "returned" THEN task
    ELSE IF task.kind = "upload" /\ task.phase = "delete"
    THEN [task EXCEPT !.phase = "create",
                      !.targets = task.entries,
                      !.calls = Pending(Len(task.entries)),
                      !.r = RetryStart(3, 500)]
    ELSE [task EXCEPT !.pc = "done",
            !.msgs = IF task.kind = "upload"
                     THEN Append(@, Msg("info", "uploaded", "none", Len(task.entries)))
                     ELSE @]

\* the Promise.all awaited by retryOperation settles (lines 272, 285, 342)
BatchAwait(t) ==
    /\ t \in 1..Len(tasks)
    /\ tasks[t].kind \in {"reset", "upload"}
    /\ tasks[t].pc = "retry" /\ tasks[t].r.pc = "call"
    /\ \E o \in BatchOutcomes(tasks[t].calls) :
          tasks' = [tasks EXCEPT ![t] =
             batchDone([@ EXCEPT !.r = retryOperation(@, o)])]
    /\ UNCHANGED <<remote, clock, db, roster, listener, notify, lastDelivered,
                   toggled, faults, retryVars, scanVars, scope, parseVars>>

Next ==
    \/ onAuthStateChanged
    \/ RosterEffect
    \/ ListenerTimeout
    \/ DeliverSnapshot
    \/ FeedError
    \/ EffectCleanup
    \/ \E t \in 1..Len(tasks) : SeedStep(t)
    \/ \E id \in ScanPayloads : handleScanSuccess(id)
    \/ \E i \in 1..Len(roster) : handleManualStatusToggle(i)
    \/ \E t \in 1..Len(tasks) : ToggleSettles(t)
    \/ \E t \in 1..Len(tasks) : TaskTimer(t)
    \/ \E c \in BOOLEAN : handleReset(c)
    \/ \E d \in UploadInputs, c \in BOOLEAN : executeRosterUpload(d, c)
    \/ \E t \in 1..Len(tasks) : UploadRead(t)
    \/ \E t \in 1..Len(tasks) : \E i \in 1..Len(tasks[t].calls) : CallSettles(t, i)
    \/ \E t \in 1..Len(tasks) : BatchAwait(t)

Spec == Init /\ [][Next]_vars

\* SpecSeed: the App from start-up with no user operation, seeding more of
\* INITIAL_ROSTER and with more rejected calls than Spec.
InitSeed ==
    /\ RetryIdle
    /\ ScanIdle
    /\ ParseIdle
    /\ scope = [seeds |-> SeedRunSeeds, events |-> SeedRunFaults]
    /\ remote \in InitRemotes
    /\ clock = 1
    /\ db = FALSE
    /\ roster = <<>>
    /\ listener = "none"
    /\ notify = FALSE
    /\ lastDelivered = [any |-> FALSE, docs |-> <<>>]
    /\ tasks = <<>>
    /\ toggled = [k \in DocKeys |-> <<>>]
    /\ faults = 0

NextSeed ==
    \/ onAuthStateChanged
    \/ RosterEffect
    \/ ListenerTimeout
    \/ DeliverSnapshot
    \/ FeedError
    \/ EffectCleanup
    \/ \E t \in 1..Len(tasks) : SeedStep(t)
    \/ \E t \in 1..Len(tasks) : TaskTimer(t)

SpecSeed == InitSeed /\ [][NextSeed]_vars

\* SpecToggle: the App with scans and manual toggles only, and enough
\* rejected calls for retryOperation to use up its three attempts.
InitToggle ==
    /\ RetryIdle
    /\ ScanIdle
    /\ ParseIdle
    /\ scope = [seeds |-> MaxSeed, events |-> ToggleRunEvents]
    /\ remote \in InitRemotes
    /\ clock = 1
    /\ db = FALSE
    /\ roster = <<>>
    /\ listener = "none"
    /\ notify = FALSE
    /\ lastDelivered = [any |-> FALSE, docs |-> <<>>]
    /\ tasks = <<>>
    /\ toggled = [k \in DocKeys |-> <<>>]
    /\ faults = 0

NextToggle ==
    \/ onAuthStateChanged
    \/ RosterEffect
    \/ ListenerTimeout
    \/ DeliverSnapshot
    \/ FeedError
    \/ EffectCleanup
    \/ \E t \in 1..Len(tasks) : SeedStep(t)
    \/ \E id \in ScanPayloads : handleScanSuccess(id)
    \/ \E i \in 1..Len(roster) : handleManualStatusToggle(i)
    \/ \E t \in 1..Len(tasks) : ToggleSettles(t)
    \/ \E t \in 1..Len(tasks) : TaskTimer(t)

SpecToggle == InitToggle /\ [][NextToggle]_vars

-----------------------------------------------------------------------------
\* Claims about the attendance toggles and the roster mirror.

\* two toggle writes applied in a row to the document of an attendee
TwoToggles(k) ==
    /\ Len(toggled[k]) = 2
    /\ toggled[k][1].pre.status \in {"present", "absent"}

\* the toggle read, in the local roster, the status the document had when
\* its write was applied
ReadCurrent(w) == w.seen = w.pre.status

\* C4 as claimed: two toggles in a row, under any timing of the mirror's
\* notifications, leave the remote status as it was before the first, and
\* lastScan strictly increases at each of them.
C4_TwoTogglesRestoreAnyTiming ==
    \A k \in DocKeys :
        TwoToggles(k)
        => /\ toggled[k][2].post.status = toggled[k][1].pre.status
           /\ toggled[k][1].post.lastScan > toggled[k][1].pre.lastScan
           /\ toggled[k][2].post.lastScan > toggled[k][1].post.lastScan

\* C4 as amended: two toggles in a row, each started from a local roster that
\* shows the attendee's current remote status, leave the remote status as it
\* was before the first; lastScan strictly increases at each of the two
\* toggles under any timing.
C4_TwoTogglesRestoreWhenMirrored ==
    \A k \in DocKeys :
        TwoToggles(k)
        => /\ (ReadCurrent(toggled[k][1]) /\ ReadCurrent(toggled[k][2]))
                => toggled[k][2].post.status = toggled[k][1].pre.status
           /\ toggled[k][1].post.lastScan > toggled[k][1].pre.lastScan
           /\ toggled[k][2].post.lastScan > toggled[k][1].post.lastScan
           /\ toggled[k][2].pre = toggled[k][1].post

\* a scan and then a manual toggle of the same attendee, the mirror
\* delivering in between: absent, present, absent again
C4_Witness ==
    \E k \in DocKeys :
        /\ TwoToggles(k)
        /\ ReadCurrent(toggled[k][1]) /\ ReadCurrent(toggled[k][2])
        /\ tasks[toggled[k][1].task].kind = "scan"
        /\ tasks[toggled[k][2].task].kind = "manual"
        /\ toggled[k][1].pre.status = "absent"
        /\ remote[k].status = "absent"
        /\ remote[k].lastScan > toggled[k][1].post.lastScan

\* the ids of the local roster
RosterIds == {roster[i].id : i \in 1..Len(roster)}

\* the handler invocation that a step starts
Started == tasks'[Len(tasks')]

\* C6: handleScanSuccess called with a payload that is the id of no entry of
\* the local roster reports not-found, never enters retryOperation and writes
\* nothing to the remote collection, then or later.
C6_UnknownPayloadWritesNothing ==
    /\ [][ ( /\ Len(tasks') = Len(tasks) + 1
             /\ Started.kind = "scan"
             /\ Started.id \notin RosterIds )
           => /\ Started.pc = "done"
              /\ Started.msgs = <<Msg("error", "not-found", Started.id, "none")>>
              /\ Started.r = RetryStart(3, 500)
              /\ remote' = remote ]_vars
    /\ [][ \A t \in 1..Len(tasks) :
             (tasks[t].kind = "scan" /\ tasks[t].person = NoDoc)
             => /\ tasks'[t] = tasks[t]
                /\ \A k \in DocKeys : \A j \in 1..Len(toggled'[k]) :
                      toggled'[k][j].task # t ]_vars

\* a scan of an id that the roster does not hold has been reported, with
\* attendees in the roster and nothing written
C6_Witness ==
    \E t \in 1..Len(tasks) :
        /\ tasks[t].kind = "scan"
        /\ tasks[t].id = OtherId
        /\ tasks[t].msgs = <<Msg("error", "not-found", OtherId, "none")>>
        /\ Len(roster) > 0
        /\ remote[OtherId] = NoDoc

\* C7: the error callback of the subscription leaves the local roster as it
\* is, for a permission-denied error and for any other error.
C7_FeedErrorKeepsRoster ==
    [][ (listener = "attached" /\ listener' \in {"failed", "broken"})
        => roster' = roster ]_vars

\* a permission-denied error was delivered while the roster held attendees
C7_Witness ==
    /\ listener = "failed"
    /\ Len(roster) > 0
    /\ lastDelivered.any

\* C8 as claimed: after a permission-denied feed error the mirror keeps
\* following the feed: every later change of the remote collection is notified
\* to the mirror (and so can reach the local roster), without a remount.
C8_ChangesAfterPermissionDeniedAreNotified ==
    [][ (listener = "failed" /\ listener' = "failed" /\ remote' # remote)
        => notify' ]_vars

\* C9: the local roster is, entry by entry, the content of the most recently
\* delivered notification, with the id taken from the document key, and is
\* empty before the first notification; no handler changes it.
C9_RosterIsLastNotification ==
    /\ ~lastDelivered.any => roster = <<>>
    /\ Len(roster) = Len(lastDelivered.docs)
    /\ \A i \in 1..Len(lastDelivered.docs) :
          LET d == lastDelivered.docs[i]
          IN  /\ roster[i].id = d.key
              /\ roster[i].name = d.data.name
              /\ roster[i].status = d.data.status
              /\ roster[i].lastScan = d.data.lastScan
              /\ roster[i].createdAt = d.data.createdAt

\* the roster shows a toggle that the mirror delivered, while a later write
\* to the same document has not reached it
C9_Witness ==
    /\ lastDelivered.any
    /\ Len(roster) > 0
    /\ roster[1].status = "present"
    /\ remote[roster[1].id].status = "absent"
    /\ listener = "attached"

\* C10: while the subscription is attached and no notification is pending,
\* the local roster holds exactly the documents of the remote collection,
\* each once, with the same status and lastScan.
C10_MirrorConverges ==
    (listener = "attached" /\ ~notify)
    => /\ \A k \in DocKeys : (remote[k] # NoDoc) <=> (k \in RosterIds)
       /\ Len(roster) = Cardinality({k \in DocKeys : remote[k] # NoDoc})
       /\ \A i \in 1..Len(roster) :
             /\ roster[i].id \in DocKeys
             /\ roster[i].status = remote[roster[i].id].status
             /\ roster[i].lastScan = remote[roster[i].id].lastScan

\* the mirror has caught up with a remote collection that was changed twice
C10_Witness ==
    /\ listener = "attached" /\ ~notify
    /\ \E k \in DocKeys : Len(toggled[k]) = 2
    /\ Len(roster) > 0

-----------------------------------------------------------------------------
\* SpecScan: one EnhancedScannerView (lines 499-752) with its decoder
\* instances, against a clock in milliseconds.

\* line 622: the debounce window of onScanSuccess, in ms
DebounceMs == 2000

\* line 648: the delay of the resume timer, in ms
ResumeMs == 3000

\* the cameras of the device
CameraIds == {1, 2}

\* what a QR code in front of the camera decodes to
DecodedTexts == {"RC-1001"}

\* the names of the errors that getCameras() and start() reject with
ErrorNames == {"NotAllowedError", "NotFoundError", "Error"}

\* setScannerState: React drops the update of an unmounted component
SetState(st) == IF mounted THEN st ELSE scannerState

\* the dependencies of the callbacks, as the next render reads them
Deps == Closure(scannerState.isRunning, scannerState.lastScanTime, selectedCameraId)

\* lines 536-537: stopScanner, with the isRunning it closed over, calls stop()
StopCalls(insts, c) ==
    /\ html5QrCodeRef # Null
    /\ c.isRunning
    /\ insts[html5QrCodeRef].pc = "scanning"

\* lines 535-551: stop() ends the decode loop of html5QrCodeRef.current
stopScanner(insts, c) ==
    IF StopCalls(insts, c)
    THEN [insts EXCEPT ![html5QrCodeRef].pc = "stopped"]
    ELSE insts

\* the promises of stop() that a call of stopScanner leaves pending
StopsOf(insts, c) == IF StopCalls(insts, c) THEN 1 ELSE 0

\* initializeScanner that leaves the error of the previous attempt in place
initializeScanner_keepsError(insts0, stops0, c, cameraId) ==
    LET target == IF cameraId # Null THEN cameraId ELSE c.selectedCameraId
    IN  /\ instances' = Append(stopScanner(insts0, c),
              [ pc       |-> IF target = Null THEN "detect" ELSE "starting",
                closure  |-> c,
                cameraId |-> target,
                cause    |-> "none",
                torch    |-> FALSE,
                availableCameras |-> <<>> ])
        /\ stopping' = stopping + stops0 + StopsOf(insts0, c)
        /\ scannerState' = SetState([scannerState EXCEPT
              !.isInitializing = TRUE, !.isRunning = FALSE])

\* lines 591-611: initializeScanner(cameraId) up to its first await, called
\* with the closure c after stops0 calls of stop() in the same step
initializeScanner(insts0, stops0, c, cameraId) ==
    LET target == IF cameraId # Null THEN cameraId ELSE c.selectedCameraId
    IN  /\ instances' = Append(stopScanner(insts0, c),
              [ pc       |-> IF target = Null THEN "detect" ELSE "starting",
                closure  |-> c,
                cameraId |-> target,
                cause    |-> "none",
                torch    |-> FALSE,
                availableCameras |-> <<>> ])
        /\ stopping' = stopping + stops0 + StopsOf(insts0, c)
        /\ scannerState' = SetState([scannerState EXCEPT
              !.isInitializing = TRUE, !.error = "null", !.isRunning = FALSE])

InitScan ==
    /\ RetryIdle
    /\ ParseIdle
    /\ AppIdle
    /\ scannerState = InitialScannerState
    /\ selectedCameraId = Null
    /\ libLoaded \in BOOLEAN
    /\ mounted = TRUE
    /\ effectDeps = NoClosure
    /\ retryTimeoutRef = FALSE
    /\ instances = <<>>
    /\ html5QrCodeRef = Null
    /\ stopping = 0
    /\ timers = <<>>
    /\ now = 1000
    /\ decodes = <<>>

\* lines 705-723: the mount effect runs again whenever initializeScanner or
\* stopScanner changed: the cleanup of the previous run, then checkAndInit
MountEffect ==
    /\ mounted
    /\ effectDeps # Deps
    /\ Len(instances) < scope.inits
    /\ effectDeps' = Deps
    /\ IF libLoaded
       THEN /\ initializeScanner(stopScanner(instances, effectDeps),
                                 StopsOf(instances, effectDeps), Deps, Null)
            /\ retryTimeoutRef' = FALSE
       ELSE /\ retryTimeoutRef' = TRUE
            /\ instances' = stopScanner(instances, effectDeps)
            /\ stopping' = stopping + StopsOf(instances, effectDeps)
            /\ UNCHANGED scannerState
    /\ UNCHANGED <<selectedCameraId, libLoaded, mounted, html5QrCodeRef, timers,
                   now, decodes, retryVars, appVars>>

\* the script of line 9 has loaded
LibraryLoads ==
    /\ ~libLoaded
    /\ libLoaded' = TRUE
    /\ UNCHANGED <<scannerState, selectedCameraId, mounted, effectDeps,
                   retryTimeoutRef, instances, html5QrCodeRef, stopping, timers,
                   now, decodes, retryVars, appVars>>

\* lines 707-713: the 500 ms timer of checkAndInit finds the library loaded
\* (it re-arms itself otherwise)
checkAndInit ==
    /\ retryTimeoutRef
    /\ libLoaded
    /\ Len(instances) < scope.inits
    /\ retryTimeoutRef' = FALSE
    /\ initializeScanner(instances, 0, effectDeps, Null)
    /\ UNCHANGED <<selectedCameraId, libLoaded, mounted, effectDeps,
                   html5QrCodeRef, timers, now, decodes, retryVars, appVars>>

\* lines 558-585 and 606-615: detectCameras resolves with a camera and the
\* call goes on to start(); in a view unmounted meanwhile scannerRef.current
\* is null, line 614 throws a TypeError and the catch block runs (its
\* setScannerState is dropped)
DetectDone(i, cam) ==
    /\ i \in 1..Len(instances)
    /\ instances[i].pc = "detect"
    /\ IF mounted
       THEN /\ selectedCameraId' = cam
            /\ instances' = [instances EXCEPT ![i].pc = "starting", ![i].cameraId = cam]
            /\ UNCHANGED stopping
       ELSE /\ instances' = [stopScanner(instances, instances[i].closure) EXCEPT
                                ![i].pc = "failed", ![i].cause = "TypeError"]
            /\ stopping' = stopping + StopsOf(instances, instances[i].closure)
            /\ UNCHANGED selectedCameraId
    /\ UNCHANGED <<scannerState, libLoaded, mounted, effectDeps, retryTimeoutRef,
                   html5QrCodeRef, timers, now, decodes, retryVars, appVars>>

\* lines 650-678: start() resolves
StartDone(i) ==
    /\ i \in 1..Len(instances)
    /\ instances[i].pc = "starting"
    /\ instances' = [instances EXCEPT ![i].pc = "scanning"]
    /\ html5QrCodeRef' = i
    /\ scannerState' = SetState([scannerState EXCEPT
          !.isInitializing = FALSE, !.isRunning = TRUE,
          !.hasPermission = "true", !.error = "null"])
    /\ UNCHANGED <<selectedCameraId, libLoaded, mounted, effectDeps,
                   retryTimeoutRef, stopping, timers, now, decodes, retryVars,
                   appVars>>

\* lines 684-692: the message and the permission flag for an error
ErrorMessage(name) ==
    IF name = "NotAllowedError"
    THEN "Camera access denied. Please grant camera permissions using the Settings button."
    ELSE IF name = "NotFoundError" THEN "No camera found on this device."
    ELSE "Failed to start camera"

HasPermission(name) == IF name = "NotAllowedError" THEN "false" ELSE "null"

\* lines 680-701: the catch block of call i of initializeScanner, run for
\* an error named `name` that was thrown because of `cause`
catchError(i, name, cause) ==
    /\ i \in 1..Len(instances)
    /\ instances[i].pc \in {"detect", "starting"}
    /\ instances' = [stopScanner(instances, instances[i].closure) EXCEPT
                        ![i].pc = "failed", ![i].cause = cause]
    /\ stopping' = stopping + StopsOf(instances, instances[i].closure)
    /\ scannerState' = SetState([scannerState EXCEPT
          !.isInitializing = FALSE, !.isRunning = FALSE,
          !.hasPermission = HasPermission(name), !.error = ErrorMessage(name)])
    /\ UNCHANGED <<selectedCameraId, libLoaded, mounted, effectDeps,
                   retryTimeoutRef, html5QrCodeRef, timers, now, decodes,
                   retryVars, appVars>>

\* getCameras() or start() rejects with an error of the device API
InitFails(i, name) == catchError(i, name, name)

\* lines 538-548: the promise of stop() settles
StopDone(fulfilled) ==
    /\ stopping > 0
    /\ stopping' = stopping - 1
    /\ scannerState' =
          IF fulfilled
          THEN SetState([scannerState EXCEPT
                  !.isRunning = FALSE, !.isInitializing = FALSE,
                  !.isPaused = FALSE, !.flashOn = FALSE])
          ELSE scannerState
    /\ UNCHANGED <<selectedCameraId, libLoaded, mounted, effectDeps,
                   retryTimeoutRef, instances, html5QrCodeRef, timers, now,
                   decodes, retryVars, appVars>>

\* line 622: the debounce test of onScanSuccess, on the scannerState the
\* callback closed over when initializeScanner created it
IsDuplicate(c, t) == c.lastScanTime # Null /\ t - c.lastScanTime < DebounceMs

\* resume timers that have fired so far (each accepted decode sets one)
Resumes == Cardinality({k \in 1..Len(decodes) : decodes[k].accepted}) - Len(timers)

\* lines 620-648: the decode loop of instance i hands a decoded text to
\* onScanSuccess
onScanSuccess(i, decodedText) ==
    /\ i \in 1..Len(instances)
    /\ instances[i].pc = "scanning"
    /\ Len(decodes) < scope.decodes
    /\ LET accepted == ~IsDuplicate(instances[i].closure, now)
       IN  /\ decodes' = Append(decodes,
                 [ t |-> now, text |-> decodedText, by |-> i,
                   accepted |-> accepted, resumes |-> Resumes ])
           /\ IF accepted
              THEN /\ scannerState' = SetState([scannerState EXCEPT
                         !.lastScanTime = now,
                         !.scanCount = @ + 1,
                         !.isPaused = TRUE])
                   /\ timers' = Append(timers, now + ResumeMs)
              ELSE UNCHANGED <<scannerState, timers>>
    /\ UNCHANGED <<selectedCameraId, libLoaded, mounted, effectDeps,
                   retryTimeoutRef, instances, html5QrCodeRef, stopping, now,
                   retryVars, appVars>>

\* lines 636-648: a resume timer fires; resume() throws unless the scanner
\* was paused, and pause() is never called
ResumeTimer ==
    /\ timers # <<>>
    /\ Head(timers) <= now
    /\ timers' = Tail(timers)
    /\ scannerState' =
          IF html5QrCodeRef # Null /\ instances[html5QrCodeRef].pc = "paused"
          THEN SetState([scannerState EXCEPT !.isPaused = FALSE])
          ELSE scannerState
    /\ UNCHANGED <<selectedCameraId, libLoaded, mounted, effectDeps,
                   retryTimeoutRef, instances, html5QrCodeRef, stopping, now,
                   decodes, retryVars, appVars>>

\* time passes, up to the next resume timer
Tick ==
    /\ now + 1000 <= scope.time
    /\ timers # <<>> => now < Head(timers)
    /\ now' = now + 1000
    /\ UNCHANGED <<scannerState, selectedCameraId, libLoaded, mounted, effectDeps,
                   retryTimeoutRef, instances, html5QrCodeRef, stopping, timers,
                   decodes, retryVars, appVars>>

\* lines 726-730: the user picks a camera in the selector
switchCamera(cameraId) ==
    /\ mounted
    /\ effectDeps.set
    /\ selectedCameraId # Null
    /\ Len(instances) < scope.inits
    /\ selectedCameraId' = cameraId
    /\ initializeScanner(instances, 0, effectDeps, cameraId)
    /\ UNCHANGED <<libLoaded, mounted, effectDeps, retryTimeoutRef,
                   html5QrCodeRef, timers, now, decodes, retryVars, appVars>>

\* lines 716-721: the view is unmounted and the cleanup of the effect runs
Unmount ==
    /\ mounted
    /\ effectDeps.set
    /\ mounted' = FALSE
    /\ retryTimeoutRef' = FALSE
    /\ instances' = stopScanner(instances, effectDeps)
    /\ stopping' = stopping + StopsOf(instances, effectDeps)
    /\ UNCHANGED <<scannerState, selectedCameraId, libLoaded, effectDeps,
                   html5QrCodeRef, timers, now, decodes, retryVars, appVars>>

NextScan ==
    \/ MountEffect
    \/ LibraryLoads
    \/ checkAndInit
    \/ \E i \in 1..Len(instances) : \E cam \in CameraIds : DetectDone(i, cam)
    \/ \E i \in 1..Len(instances) : StartDone(i)
    \/ \E i \in 1..Len(instances) : \E name \in ErrorNames : InitFails(i, name)
    \/ \E fulfilled \in BOOLEAN : StopDone(fulfilled)
    \/ \E i \in 1..Len(instances) : \E text \in DecodedTexts : onScanSuccess(i, text)
    \/ ResumeTimer
    \/ Tick
    \/ \E cam \in CameraIds : switchCamera(cam)
    \/ Unmount

SpecScan == InitScan /\ [][NextScan]_vars

\* ---- the rest of the scanner view: errors while scanning, retry, torch ----

\* what the decode loop reports to the error callback of start(): per frame
\* without a code a parse error, or the name of a camera error
ScanErrorTexts == {"NotAllowedError", "Permission denied", "NotFoundError",
                   "NotFoundException"}

\* lines 657-659: the texts the error callback reacts to
IsCritical(errorMessage) ==
    errorMessage \in {"NotAllowedError", "Permission denied", "NotFoundError"}

\* the cameras whose track has the torch capability
TorchCameras == {1}

\* lines 558-562 and 680-701: getCameras() resolves with no device,
\* detectCameras throws Error('No cameras found on device') and the catch
\* block of initializeScanner runs
DetectNone(i) ==
    /\ i \in 1..Len(instances)
    /\ instances[i].pc = "detect"
    /\ catchError(i, "Error", "no-devices")

\* lines 656-669: the decode loop of instance i calls the error callback
\* that initializeScanner passed to start()
onScanFailure(i, errorMessage) ==
    /\ i \in 1..Len(instances)
    /\ instances[i].pc = "scanning"
    /\ IF IsCritical(errorMessage)
       THEN /\ instances' = [stopScanner(instances, instances[i].closure) EXCEPT
                                ![i].cause = errorMessage]
            /\ stopping' = stopping + StopsOf(instances, instances[i].closure)
            /\ scannerState' = SetState([scannerState EXCEPT
                  !.error = "Camera access denied. Please grant permissions.",
                  !.hasPermission = "false",
                  !.isInitializing = FALSE])
       ELSE UNCHANGED <<instances, stopping, scannerState>>
    /\ UNCHANGED <<selectedCameraId, libLoaded, mounted, effectDeps,
                   retryTimeoutRef, html5QrCodeRef, timers, now, decodes,
                   retryVars, appVars>>

\* lines 885-901: the Retry Camera button of the error panel
retryCamera ==
    /\ mounted
    /\ effectDeps.set
    /\ scannerState.error # "null"
    /\ Len(instances) < scope.inits
    /\ initializeScanner(instances, 0, effectDeps, Null)
    /\ UNCHANGED <<selectedCameraId, libLoaded, mounted, effectDeps,
                   retryTimeoutRef, html5QrCodeRef, timers, now, decodes,
                   retryVars, appVars>>

\* lines 732-752 and 848-850: the flash button, enabled while isRunning;
\* the two awaited calls of the handler are taken as one step, and
\* setTorchEnabled is fulfilled or rejected
toggleFlash(fulfilled) ==
    /\ mounted
    /\ html5QrCodeRef # Null
    /\ scannerState.isRunning
    /\ IF instances[html5QrCodeRef].pc # "scanning"
       THEN UNCHANGED <<instances, scannerState>>
       ELSE IF instances[html5QrCodeRef].cameraId \in TorchCameras
       THEN IF fulfilled
            THEN /\ instances' = [instances EXCEPT
                                     ![html5QrCodeRef].torch = ~scannerState.flashOn]
                 /\ scannerState' = [scannerState EXCEPT !.flashOn = ~@]
            ELSE UNCHANGED <<instances, scannerState>>
       ELSE /\ scannerState' = [scannerState EXCEPT !.error =
                  "Flash/Torch functionality not supported by this camera."]
            /\ UNCHANGED instances
    /\ UNCHANGED <<selectedCameraId, libLoaded, mounted, effectDeps,
                   retryTimeoutRef, html5QrCodeRef, stopping, timers, now,
                   decodes, retryVars, appVars>>

\* ---- detectCameras on the list of devices that getCameras() gives ----

\* devices per list tried
MaxDevices == 3

\* the ids of the devices
DeviceIds == 1..MaxDevices

\* labels of devices: none, without a keyword, with a keyword in lower,
\* upper and mixed case, with a keyword inside a longer text, and with the
\* letters of a keyword apart
DeviceLabels ==
    { <<>>,
      <<"F", "r", "o", "n", "t">>,
      <<"b", "a", "c", "k">>,
      <<"R", "E", "A", "R">>,
      <<"0", " ", "E", "n", "v", "i", "r", "o", "n", "m", "e", "n", "t", "!">>,
      <<"b", "a", " ", "c", "k">> }

\* what getCameras() can resolve with: up to MaxDevices devices with ids
\* of their own
DeviceLists ==
    { list \in UNION {[1..n -> [id : DeviceIds, label : DeviceLabels]] : n \in 1..MaxDevices} :
        \A i, j \in 1..Len(list) : i # j => list[i].id # list[j].id }

UpperCase == <<"A", "B", "C", "D", "E", "F", "G", "H", "I", "J", "K", "L", "M",
               "N", "O", "P", "Q", "R", "S", "T", "U", "V", "W", "X", "Y", "Z">>

LowerCase == <<"a", "b", "c", "d", "e", "f", "g", "h", "i", "j", "k", "l", "m",
               "n", "o", "p", "q", "r", "s", "t", "u", "v", "w", "x", "y", "z">>

\* String.prototype.toLowerCase
toLowerCase(s) ==
    [k \in 1..Len(s) |->
        IF \E u \in 1..26 : UpperCase[u] = s[k]
        THEN LowerCase[CHOOSE u \in 1..26 : UpperCase[u] = s[k]]
        ELSE s[k]]

\* String.prototype.includes
includes(s, sub) ==
    \E i \in 0..(Len(s) - Len(sub)) : SubSeq(s, i + 1, i + Len(sub)) = sub

\* lines 566-572: the test of availableCameras.find
IsBackLabel(label) ==
    /\ label # <<>>
    /\ \/ includes(toLowerCase(label), <<"b", "a", "c", "k">>)
       \/ includes(toLowerCase(label),
                   <<"e", "n", "v", "i", "r", "o", "n", "m", "e", "n", "t">>)
       \/ includes(toLowerCase(label), <<"r", "e", "a", "r">>)

\* the choice without the fallback to the second device
preferredCameraId_first(availableCameras) ==
    IF \E i \in 1..Len(availableCameras) : IsBackLabel(availableCameras[i].label)
    THEN availableCameras[CHOOSE i \in 1..Len(availableCameras) :
            /\ IsBackLabel(availableCameras[i].label)
            /\ \A j \in 1..(i - 1) : ~IsBackLabel(availableCameras[j].label)].id
    ELSE availableCameras[1].id

\* lines 565-581: preferredCameraId for a list that is not empty
preferredCameraId(availableCameras) ==
    IF \E i \in 1..Len(availableCameras) : IsBackLabel(availableCameras[i].label)
    THEN availableCameras[CHOOSE i \in 1..Len(availableCameras) :
            /\ IsBackLabel(availableCameras[i].label)
            /\ \A j \in 1..(i - 1) : ~IsBackLabel(availableCameras[j].label)].id
    ELSE IF Len(availableCameras) > 1 THEN availableCameras[2].id
    ELSE availableCameras[1].id

\* lines 558-584 and 606-612: getCameras() resolves with availableCameras,
\* not empty, in a mounted view; detectCameras selects a camera and
\* initializeScanner goes on to start() with it
detectCameras(i, availableCameras) ==
    /\ i \in 1..Len(instances)
    /\ instances[i].pc = "detect"
    /\ mounted
    /\ selectedCameraId' = preferredCameraId(availableCameras)
    /\ instances' = [instances EXCEPT
                        ![i].pc = "starting",
                        ![i].cameraId = preferredCameraId(availableCameras),
                        ![i].availableCameras = availableCameras]
    /\ UNCHANGED <<scannerState, libLoaded, mounted, effectDeps, retryTimeoutRef,
                   html5QrCodeRef, stopping, timers, now, decodes, retryVars,
                   appVars>>

\* SpecDetect: a scanner view mounted with the library loaded, and its one
\* call of initializeScanner, over every list of DeviceLists.
InitDetect ==
    /\ RetryIdle
    /\ ParseIdle
    /\ remote = [k \in DocKeys |-> NoDoc]
    /\ clock = 0
    /\ db = FALSE
    /\ roster = <<>>
    /\ listener = "none"
    /\ notify = FALSE
    /\ lastDelivered = [any |-> FALSE, docs |-> <<>>]
    /\ tasks = <<>>
    /\ toggled = [k \in DocKeys |-> <<>>]
    /\ faults = 0
    /\ scope = [seeds |-> 0, events |-> 0, inits |-> 1, decodes |-> 0, time |-> 0]
    /\ scannerState = InitialScannerState
    /\ selectedCameraId = Null
    /\ libLoaded = TRUE
    /\ mounted = TRUE
    /\ effectDeps = NoClosure
    /\ retryTimeoutRef = FALSE
    /\ instances = <<>>
    /\ html5QrCodeRef = Null
    /\ stopping = 0
    /\ timers = <<>>
    /\ now = 1000
    /\ decodes = <<>>

NextDetect ==
    \/ MountEffect
    \/ \E i \in 1..Len(instances) : \E list \in DeviceLists : detectCameras(i, list)
    \/ \E i \in 1..Len(instances) : DetectNone(i)
    \/ \E i \in 1..Len(instances) : StartDone(i)

SpecDetect == InitDetect /\ [][NextDetect]_vars

\* SpecSession: the scanner view with every handler of lines 499-752 and
\* the buttons of its error panel and toolbar.
InitSession ==
    /\ RetryIdle
    /\ ParseIdle
    /\ remote = [k \in DocKeys |-> NoDoc]
    /\ clock = 0
    /\ db = FALSE
    /\ roster = <<>>
    /\ listener = "none"
    /\ notify = FALSE
    /\ lastDelivered = [any |-> FALSE, docs |-> <<>>]
    /\ tasks = <<>>
    /\ toggled = [k \in DocKeys |-> <<>>]
    /\ faults = 0
    /\ scope = [seeds |-> 0, events |-> 0, inits |-> SessionInits,
                decodes |-> SessionDecodes, time |-> SessionTime]
    /\ scannerState = InitialScannerState
    /\ selectedCameraId = Null
    /\ libLoaded \in BOOLEAN
    /\ mounted = TRUE
    /\ effectDeps = NoClosure
    /\ retryTimeoutRef = FALSE
    /\ instances = <<>>
    /\ html5QrCodeRef = Null
    /\ stopping = 0
    /\ timers = <<>>
    /\ now = 1000
    /\ decodes = <<>>

NextSession ==
    \/ MountEffect
    \/ LibraryLoads
    \/ checkAndInit
    \/ \E i \in 1..Len(instances) : \E cam \in CameraIds : DetectDone(i, cam)
    \/ \E i \in 1..Len(instances) : DetectNone(i)
    \/ \E i \in 1..Len(instances) : StartDone(i)
    \/ \E i \in 1..Len(instances) : \E name \in ErrorNames : InitFails(i, name)
    \/ \E fulfilled \in BOOLEAN : StopDone(fulfilled)
    \/ \E i \in 1..Len(instances) : \E text \in DecodedTexts : onScanSuccess(i, text)
    \/ \E i \in 1..Len(instances) : \E text \in ScanErrorTexts : onScanFailure(i, text)
    \/ ResumeTimer
    \/ Tick
    \/ \E cam \in CameraIds : switchCamera(cam)
    \/ retryCamera
    \/ \E fulfilled \in BOOLEAN : toggleFlash(fulfilled)
    \/ Unmount

SpecSession == InitSession /\ [][NextSession]_vars

\* ---- claims about the debounce of the decode loop ----

\* C5 as claimed: of two decode events for the same payload in one scan
\* session, the second is discarded when it arrives less than 2000 ms after
\* the first was accepted; and it is accepted when it is the next decode
\* event, arrives 2000 ms or more after the first and a resume timer fired
\* in between.
C5_DebounceWindow ==
    \A i, j \in 1..Len(decodes) :
        (i < j /\ decodes[i].text = decodes[j].text /\ decodes[i].accepted)
        => /\ decodes[j].t - decodes[i].t < DebounceMs => ~decodes[j].accepted
           /\ ( /\ j = i + 1
                /\ decodes[j].t - decodes[i].t >= DebounceMs
                /\ decodes[j].resumes > decodes[i].resumes )
              => decodes[j].accepted

-----------------------------------------------------------------------------
\* Claims about the writers of the remote collection.

\* the step applies the setDoc of person tasks[t].k of seedRoster
SeedWrote(t) ==
    /\ tasks[t].kind = "seed" /\ tasks[t].k >= 1
    /\ tasks'[t] # tasks[t]
    /\ clock' # clock

\* the step applies call i of the batch of task t to the collection
CallApplied(t, i) ==
    /\ i \in 1..Len(tasks[t].calls)
    /\ tasks[t].calls[i] = "pending"
    /\ tasks'[t].calls[i] = "ok"

\* the step applies the setDoc of the toggle t to the collection
ToggleApplied(t) ==
    /\ tasks[t].kind \in {"scan", "manual"}
    /\ tasks[t].r.pc = "call"
    /\ tasks'[t].r.pc = "returned"

\* C11 as claimed: a document comes into existence only by a write of
\* seedRoster or of the create phase of executeRosterUpload, and ceases to
\* exist only by a delete of executeRosterUpload; the toggles and handleReset
\* never create or delete one.
C11_OnlySeedAndUploadCreate ==
    [][ \A k \in DocKeys :
          /\ (remote[k] = NoDoc /\ remote'[k] # NoDoc)
             => \E t \in 1..Len(tasks) :
                   \/ SeedWrote(t)
                   \/ /\ tasks[t].kind = "upload" /\ tasks[t].phase = "create"
                      /\ \E i \in 1..Len(tasks[t].calls) :
                            CallApplied(t, i) /\ tasks[t].targets[i].id = k
          /\ (remote[k] # NoDoc /\ remote'[k] = NoDoc)
             => \E t \in 1..Len(tasks) :
                   /\ tasks[t].kind = "upload" /\ tasks[t].phase = "delete"
                   /\ \E i \in 1..Len(tasks[t].calls) :
                         CallApplied(t, i) /\ tasks[t].targets[i].id = k ]_vars

\* present for absent and absent for present
Opposite(status) == IF status = "present" THEN "absent" ELSE "present"

\* C12: a scan of a payload found in the local roster enters retryOperation
\* (3 attempts, 500 ms) with the opposite of the status the roster shows; its
\* write sets exactly status, to that value, and lastScan, to the server
\* time of the write, in the attendee's document; id, name and createdAt of
\* the document and every other document are left as they are.
C12_ScanWritesStatusAndLastScan ==
    /\ [][ ( /\ Len(tasks') = Len(tasks) + 1
             /\ Started.kind = "scan"
             /\ Started.id \in RosterIds )
           => /\ Started.pc = "retry"
              /\ Started.r = RetryStart(3, 500)
              /\ Started.msgs = <<>>
              /\ \E i \in 1..Len(roster) :
                    /\ roster[i].id = Started.id
                    /\ Started.newStatus = Opposite(roster[i].status)
              /\ remote' = remote ]_vars
    /\ [][ \A t \in 1..Len(tasks) :
             (tasks[t].kind = "scan" /\ ToggleApplied(t))
             => LET k == tasks[t].id
                IN  /\ remote'[k].status = tasks[t].newStatus
                    /\ remote'[k].lastScan = clock'
                    /\ clock' > clock
                    /\ remote'[k].id = remote[k].id
                    /\ remote'[k].name = remote[k].name
                    /\ remote'[k].createdAt = remote[k].createdAt
                    /\ \A o \in DocKeys \ {k} : remote'[o] = remote[o] ]_vars

\* a scan has marked RC-1001 present in the collection, the rest of its
\* document being what the seed wrote
C12_Witness ==
    \E t \in 1..Len(tasks) :
        /\ tasks[t].kind = "scan" /\ tasks[t].pc = "done"
        /\ tasks[t].r.pc = "returned"
        /\ tasks[t].id = "RC-1001"
        /\ remote["RC-1001"] =
              [ id |-> "RC-1001", name |-> "Alfie Johnson", status |-> "present",
                lastScan |-> clock, createdAt |-> 1 ]

\* C13: in the remote collection a status present always comes with a
\* lastScan timestamp: a scan or a manual toggle sets lastScan to the server
\* time of its write together with the status, and a seed, a create and a
\* reset write status absent together with lastScan null.
C13_StatusPairedWithLastScan ==
    /\ [](\A k \in DocKeys :
             remote[k].status = "present" => remote[k].lastScan > Null)
    /\ [][ \A t \in 1..Len(tasks) :
             /\ ToggleApplied(t)
                => /\ remote'[tasks[t].id].status = tasks[t].newStatus
                   /\ remote'[tasks[t].id].lastScan = clock'
                   /\ clock' > clock
             /\ \A i \in 1..Len(tasks[t].calls) :
                   (CallApplied(t, i) /\ ~(tasks[t].kind = "upload" /\ tasks[t].phase = "delete"))
                   => /\ remote'[tasks[t].targets[i].id].status = "absent"
                      /\ remote'[tasks[t].targets[i].id].lastScan = Null
             /\ SeedWrote(t)
                => /\ remote'[SeedPeople[tasks[t].k].id].status = "absent"
                   /\ remote'[SeedPeople[tasks[t].k].id].lastScan = Null ]_vars

\* a manual toggle marked RC-1001 present and a reset then cleared it
C13_Witness ==
    /\ \E t \in 1..Len(tasks) :
          /\ tasks[t].kind = "manual" /\ tasks[t].r.pc = "returned"
          /\ tasks[t].id = "RC-1001" /\ tasks[t].newStatus = "present"
    /\ \E t \in 1..Len(tasks) :
          /\ tasks[t].kind = "reset" /\ tasks[t].r.pc = "returned"
    /\ remote["RC-1001"].status = "absent"
    /\ remote["RC-1001"].lastScan = Null
    /\ remote["RC-1001"].createdAt = 1

-----------------------------------------------------------------------------
\* Claims about the outcomes the handlers report.

\* the toggles of an attendee found in the roster
FoundToggles == {t \in 1..Len(tasks) :
                    tasks[t].kind \in {"scan", "manual"} /\ tasks[t].person # NoDoc}

\* the outcome of task t is the success message of lines 1137-1140 or
\* 1173-1176
SuccessOutcome(task) ==
    /\ task.msgs = <<Msg(IF task.kind = "scan" THEN "success" ELSE "warning",
                         "toggled", task.person.name, task.newStatus)>>
    /\ task.r.pc = "returned"

\* the outcome of task t is the failure message of lines 1146-1149 or
\* 1182-1185, after the third attempt or after a non-transient error
FailureOutcome(task) ==
    /\ task.msgs = <<Msg("error", "failed", task.person.name, "none")>>
    /\ task.r.pc = "thrown"
    /\ \/ task.r.i = 2
       \/ ~IsTransient(task.r.error.code)

\* C14: a toggle of an attendee found in the roster reports nothing while
\* its write is under way and exactly one outcome when it is over: the
\* success message with name and new status, in the step that applies the
\* write, or the failure message with the name, once retryOperation has
\* thrown on the third attempt or on a non-transient error; a toggle that is
\* over never writes or reports again.
C14_OneOutcomePerToggle ==
    /\ [](\A t \in FoundToggles :
             IF tasks[t].pc = "done"
             THEN SuccessOutcome(tasks[t]) \/ FailureOutcome(tasks[t])
             ELSE tasks[t].msgs = <<>> /\ tasks[t].r.pc \in {"call", "sleep"})
    /\ [][ \A t \in FoundToggles :
             /\ (tasks[t].pc # "done" /\ tasks'[t].pc = "done" /\ SuccessOutcome(tasks'[t]))
                => /\ ToggleApplied(t)
                   /\ remote'[tasks[t].id].status = tasks[t].newStatus
             /\ (tasks[t].pc # "done" /\ tasks'[t].pc = "done" /\ FailureOutcome(tasks'[t]))
                => remote' = remote
             /\ tasks[t].pc = "done"
                => tasks'[t] = tasks[t] ]_vars

\* a scan of an attendee of the roster failed on its third attempt with a
\* transient error
C14_Witness ==
    \E t \in FoundToggles :
       /\ tasks[t].pc = "done"
       /\ tasks[t].kind = "scan"
       /\ FailureOutcome(tasks[t])
       /\ tasks[t].r.i = 2
       /\ tasks[t].r.error.code = "unavailable"
       /\ faults = 3

\* the uploads called with an empty list of entries
EmptyUploads == {t \in 1..Len(tasks) :
                    tasks[t].kind = "upload" /\ tasks[t].entries = <<>>}

\* C15: executeRosterUpload called with an empty list reports the
\* validation message and is over at once: it never reads the collection,
\* issues no delete and no create, and the collection is as it was.
C15_EmptyUploadMakesNoCall ==
    /\ [](\A t \in EmptyUploads :
             /\ tasks[t].pc = "done"
             /\ tasks[t].msgs = <<Msg("error", "no-valid-entries", "none", "none")>>
             /\ tasks[t].phase = "none"
             /\ tasks[t].targets = <<>>
             /\ tasks[t].calls = <<>>)
    /\ [][ (Len(tasks') > Len(tasks) /\ Len(tasks') \in EmptyUploads')
           => /\ remote' = remote
              /\ clock' = clock
              /\ faults' = faults ]_vars

\* an upload with no entry was attempted on a collection that holds a
\* document, and the document is still there
C15_Witness ==
    /\ EmptyUploads # {}
    /\ remote["RC-1001"] # NoDoc

\* the calls of the batch of `task` that were rejected
RejectedCalls(task) == {i \in 1..Len(task.calls) : task.calls[i] \notin {"pending", "ok"}}

\* C16 as claimed: a bulk replace in which one delete or one create was
\* rejected once with a transient error issues that call again when the
\* backoff is over, and ends with the success message.
C16_TransientCallFailureIsRetried ==
    /\ [](\A t \in 1..Len(tasks) :
             ( /\ tasks[t].kind = "upload" /\ tasks[t].pc = "done"
               /\ Cardinality(RejectedCalls(tasks[t])) = 1
               /\ \A i \in RejectedCalls(tasks[t]) : IsTransient(tasks[t].calls[i]) )
             => tasks[t].msgs[Len(tasks[t].msgs)].text = "uploaded")
    /\ [][ \A t \in 1..Len(tasks) :
             ( /\ tasks[t].kind = "upload"
               /\ tasks[t].r.pc = "sleep" /\ tasks'[t].r.pc = "call" )
             => \A i \in RejectedCalls(tasks[t]) : tasks'[t].calls[i] = "pending" ]_vars

\* C17: a bulk replace issues its creates only in the step in which its
\* delete phase returns, with every delete of the documents read applied;
\* a bulk replace whose delete phase has thrown is over with the critical
\* message and never issues a create.
C17_CreatesFollowCompletedDeletes ==
    /\ [](\A t \in 1..Len(tasks) :
             tasks[t].kind = "upload"
             => /\ (tasks[t].phase = "none"
                    => tasks[t].calls = <<>>)
                /\ (tasks[t].phase = "delete" /\ tasks[t].r.pc = "thrown"
                    => /\ tasks[t].pc = "done"
                       /\ tasks[t].msgs[Len(tasks[t].msgs)] =
                             Msg("error", "critical", "none", "none")))
    /\ [][ \A t \in 1..Len(tasks) :
             tasks[t].kind = "upload"
             => /\ (tasks[t].phase # "create" /\ tasks'[t].phase = "create")
                   => /\ tasks[t].phase = "delete"
                      /\ tasks[t].r.pc = "call" /\ tasks'[t].r.pc = "call"
                      /\ \A i \in 1..Len(tasks[t].calls) : tasks[t].calls[i] = "ok"
                      /\ Len(tasks[t].calls) = Len(tasks[t].targets)
                      /\ tasks'[t].calls = Pending(Len(tasks[t].entries))
                /\ (tasks[t].phase = "delete" /\ tasks[t].pc = "done")
                   => /\ tasks'[t].phase = "delete"
                      /\ tasks'[t].pc = "done"
                      /\ \A i \in 1..Len(tasks[t].calls) :
                            CallApplied(t, i)
                            => remote'[tasks[t].targets[i].id] = NoDoc ]_vars

\* a bulk replace read RC-1001, its delete was rejected, and it is over
\* with the critical message while RC-1001 is still in the collection
C17_Witness ==
    \E t \in 1..Len(tasks) :
       /\ tasks[t].kind = "upload"
       /\ tasks[t].phase = "delete" /\ tasks[t].pc = "done"
       /\ tasks[t].r.pc = "thrown"
       /\ RejectedCalls(tasks[t]) # {}
       /\ remote["RC-1001"] # NoDoc

\* task t is the only writer there has been: nothing was rejected, and
\* every other invocation is a seedRoster that found documents and is over
OnlyWriter(t) ==
    /\ faults = 0
    /\ \A u \in 1..Len(tasks) :
          u # t => tasks[u].kind = "seed" /\ tasks[u].pc = "done" /\ tasks[u].k = 0

\* C18 as claimed: a bulk replace that reports success as the only writer
\* leaves one document per entry of its input and no other document, each
\* with status absent and lastScan null, and reports the number of documents
\* now in the collection, repeated ids in the input included.
C18_ReplaceLeavesOneDocumentPerEntry ==
    \A t \in 1..Len(tasks) :
       ( /\ tasks[t].kind = "upload" /\ tasks[t].pc = "done"
         /\ tasks[t].msgs # <<>>
         /\ tasks[t].msgs[Len(tasks[t].msgs)].text = "uploaded"
         /\ OnlyWriter(t) )
       => LET docs == QueryDocs(remote)
              entries == tasks[t].entries
          IN  /\ Len(docs) = Len(entries)
              /\ tasks[t].msgs[Len(tasks[t].msgs)].what = Len(docs)
              /\ \A i \in 1..Len(docs) :
                    /\ \E j \in 1..Len(entries) : entries[j].id = docs[i].key
                    /\ docs[i].data.status = "absent"
                    /\ docs[i].data.lastScan = Null
              /\ \A j \in 1..Len(entries) : remote[entries[j].id] # NoDoc

-----------------------------------------------------------------------------
\* Claims about seedRoster.

\* the seedRoster invocations
Seeds == {t \in 1..Len(tasks) : tasks[t].kind = "seed"}

\* the default attendee `person` as seedRoster writes it
IsDefaultRecord(d, person) ==
    /\ d.id = person.id /\ d.name = person.name
    /\ d.status = "absent" /\ d.lastScan = Null

\* C19: seedRoster writes only after it has read an empty collection, and
\* what it writes are the default attendees, in order, with status absent
\* and lastScan null; when it reads documents it returns without a write,
\* so a collection seeded by an earlier run is never changed; having read
\* an empty collection and met no rejection it leaves all six attendees.
C19_SeedIsIdempotent ==
    /\ [](remote["RC-1001"].createdAt = 1 => remote \in InitRemotes)
    /\ [](\A t \in Seeds :
             ( /\ tasks[t].pc = "done" /\ tasks[t].k = Len(INITIAL_ROSTER)
               /\ faults = 0 )
             => \A i \in 1..Len(INITIAL_ROSTER) :
                   IsDefaultRecord(remote[INITIAL_ROSTER[i].id], INITIAL_ROSTER[i]))
    /\ [][ \A t \in Seeds :
             /\ ( /\ tasks[t].k = 0 /\ tasks'[t] # tasks[t] /\ faults' = faults
                  /\ tasks[t].r.pc = "call" )
                => IF QueryDocs(remote) = <<>>
                   THEN tasks'[t].k = 1 /\ remote' = remote
                   ELSE /\ tasks'[t].pc = "done" /\ tasks'[t].r.pc = "returned"
                        /\ tasks'[t].k = 0
                        /\ remote' = remote
             /\ SeedWrote(t)
                => /\ \A k \in DocKeys :
                         k # INITIAL_ROSTER[tasks[t].k].id => remote'[k] = remote[k]
                   /\ IsDefaultRecord(remote'[INITIAL_ROSTER[tasks[t].k].id],
                                      INITIAL_ROSTER[tasks[t].k])
             /\ tasks[t].pc = "done"
                => tasks'[t] = tasks[t] /\ remote' = remote ]_vars

\* seedRoster read an empty collection, met no rejection and is over, and
\* the collection holds the six default attendees written by it
C19_Witness ==
    /\ faults = 0
    /\ \E t \in Seeds : tasks[t].pc = "done" /\ tasks[t].k = Len(INITIAL_ROSTER)
    /\ \A i \in 1..Len(INITIAL_ROSTER) :
          /\ IsDefaultRecord(remote[INITIAL_ROSTER[i].id], INITIAL_ROSTER[i])
          /\ remote[INITIAL_ROSTER[i].id].createdAt > 1

\* seedRoster read a collection seeded by an earlier run and is over
C19_WitnessSecondRun ==
    /\ \E t \in Seeds : tasks[t].pc = "done" /\ tasks[t].k = 0 /\ tasks[t].r.i = 0
    /\ faults = 0
    /\ remote["RC-1005"].createdAt = 1

\* C20 as claimed: a seedRoster that started on an empty collection and
\* returned without using up its retries has left all six default
\* attendees in the collection, whatever calls were rejected on the way.
C20_FinishedSeedIsComplete ==
    \A t \in Seeds :
       ( /\ tasks[t].pc = "done" /\ tasks[t].r.pc = "returned"
         /\ \A k \in DocKeys : remote[k].createdAt # 1 )
       => \A i \in 1..Len(INITIAL_ROSTER) :
             IsDefaultRecord(remote[INITIAL_ROSTER[i].id], INITIAL_ROSTER[i])

-----------------------------------------------------------------------------
\* Claims about teardown.

-----------------------------------------------------------------------------
\* Claims about the scan session.

\* the session states that the flags of scannerState describe
SessionStates(st) ==
    { s \in {"Initializing", "Active", "Paused", "Error"} :
        \/ /\ s = "Initializing"
           /\ st.isInitializing /\ ~st.isRunning /\ ~st.isPaused /\ st.error = "null"
        \/ /\ s = "Active"
           /\ ~st.isInitializing /\ st.isRunning /\ ~st.isPaused /\ st.error = "null"
        \/ /\ s = "Paused"
           /\ ~st.isInitializing /\ st.isRunning /\ st.isPaused /\ st.error = "null"
        \/ /\ s = "Error"
           /\ ~st.isInitializing /\ ~st.isRunning /\ ~st.isPaused /\ st.error # "null" }

\* the state changes of the session: Initializing to Active or Error,
\* Active to Paused and back, Active or Paused to Error, and any state to
\* Initializing (retry from Error, camera switch)
SessionChanges ==
    { <<"Initializing", "Active">>, <<"Initializing", "Error">>,
      <<"Active", "Paused">>, <<"Paused", "Active">>,
      <<"Active", "Error">>, <<"Paused", "Error">>,
      <<"Error", "Initializing">>, <<"Active", "Initializing">>,
      <<"Paused", "Initializing">>, <<"Initializing", "Initializing">> }

\* C22 as claimed: while the view is mounted the flags of scannerState
\* describe exactly one of Initializing, Active, Paused and Error, and a
\* step changes the session state only along SessionChanges.
C22_SessionIsAStateMachine ==
    /\ [](mounted => Cardinality(SessionStates(scannerState)) = 1)
    /\ [][ (mounted' /\ scannerState' # scannerState)
           => \A a \in SessionStates(scannerState), b \in SessionStates(scannerState') :
                 a = b \/ <<a, b>> \in SessionChanges ]_vars

\* the decode loops that are running
Scanning == {i \in 1..Len(instances) : instances[i].pc = "scanning"}

\* C23 as claimed: once the view is unmounted no decode loop is running,
\* none starts, no decode is handed to onScanSuccess and no timer changes
\* scannerState, whatever the session was doing when it was unmounted
\* (taken here for the views unmounted when the mount effect had run for
\* the latest render, as it has when a click unmounts the view).
C23_TeardownStopsDecoding ==
    /\ []((~mounted /\ effectDeps = Deps) => Scanning = {})
    /\ [][ ~mounted => /\ decodes' = decodes
                       /\ scannerState' = scannerState ]_vars

\* the step is the firing of the resume timer of an accepted decode
ResumeFires == timers # <<>> /\ timers' = Tail(timers)

\* C24 as claimed: when the 3000 ms timer of an accepted decode fires in a
\* mounted view whose session is Paused, with no error, no stop() under
\* way and its decoder still scanning, the session is Active afterwards,
\* also when resume() throws.
C24_PausedSessionResumes ==
    [][ ( /\ ResumeFires
          /\ mounted /\ effectDeps = Deps /\ stopping = 0
          /\ SessionStates(scannerState) = {"Paused"}
          /\ html5QrCodeRef # Null
          /\ instances[html5QrCodeRef].pc = "scanning" )
        => SessionStates(scannerState') = {"Active"} ]_vars

\* C25 as claimed: after an accepted decode no decode of the same code is
\* accepted before the 3000 ms pause is over (taken here for a second
\* decode whose onScanSuccess closed over the lastScanTime of the first,
\* i.e. whose debounce test reads the current value).
C25_NoDecodeAcceptedWhilePaused ==
    \A j, k \in 1..Len(decodes) :
       ( /\ j < k
         /\ decodes[j].accepted
         /\ decodes[k].text = decodes[j].text
         /\ decodes[k].t - decodes[j].t < ResumeMs
         /\ instances[decodes[k].by].closure.lastScanTime = decodes[j].t )
       => ~decodes[k].accepted

\* the class of a failure by its cause, as the claim has it
FailureClass(cause) ==
    IF cause \in {"no-devices", "NotFoundError"} THEN "device-not-found"
    ELSE IF cause \in {"NotAllowedError", "Permission denied"} THEN "permission"
    ELSE "generic"

\* the class of a user-facing message
MessageClass(text) ==
    IF text = "No camera found on this device." THEN "device-not-found"
    ELSE IF text \in {"Camera access denied. Please grant permissions.",
                      ErrorMessage("NotAllowedError")}
    THEN "permission"
    ELSE IF text = "Failed to start camera" THEN "generic"
    ELSE "none"

\* C26 as claimed: in a mounted view a failure of initializeScanner or of
\* the running decode loop sets the message of its class (device not found,
\* permission, generic), sets hasPermission to false for the permission
\* class only, and puts the session in Error.
C26_FailuresAreClassified ==
    [][ \A i \in 1..Len(instances) :
          ( /\ mounted
            /\ instances'[i].cause # instances[i].cause )
          => /\ MessageClass(scannerState'.error) = FailureClass(instances'[i].cause)
             /\ (scannerState'.hasPermission = "false")
                   <=> (FailureClass(instances'[i].cause) = "permission")
             /\ SessionStates(scannerState') = {"Error"} ]_vars

\* call i of initializeScanner comes to the end of its try block or to its
\* catch block: the promise of getCameras() or of start() settles
Settles(i) ==
    \/ \E cam \in CameraIds : DetectDone(i, cam)
    \/ DetectNone(i)
    \/ StartDone(i)
    \/ \E name \in ErrorNames : InitFails(i, name)

\* SpecSessionFair: SpecSession in which every promise of the device API
\* settles, React runs the effects that are due and the 500 ms timer of
\* checkAndInit fires. Nothing makes the script of line 9 load, time pass
\* or the user act.
SpecSessionFair ==
    /\ SpecSession
    /\ \A i \in 1..SessionInits : WF_vars(Settles(i))
    /\ WF_vars(\E fulfilled \in BOOLEAN : StopDone(fulfilled))
    /\ WF_vars(MountEffect)
    /\ WF_vars(checkAndInit)

\* C27 as claimed: in a mounted view isInitializing does not stay true
\* forever: the session comes to run with no error or to show an error
\* message; and the step in which start() resolves leaves isRunning true
\* and error null.
C27_InitializationEnds ==
    /\ (mounted /\ scannerState.isInitializing)
          ~> \/ ~mounted
             \/ /\ ~scannerState.isInitializing
                /\ \/ scannerState.isRunning /\ scannerState.error = "null"
                   \/ scannerState.error # "null"
    /\ [][ \A i \in 1..Len(instances) :
             (mounted /\ instances[i].pc = "starting" /\ instances'[i].pc = "scanning")
             => /\ scannerState'.isRunning
                /\ ~scannerState'.isInitializing
                /\ scannerState'.error = "null" ]_vars

\* a step of switchCamera: a call of initializeScanner that comes neither
\* from the mount effect nor from the timer of checkAndInit
SwitchStep ==
    /\ Len(instances') = Len(instances) + 1
    /\ effectDeps' = effectDeps
    /\ retryTimeoutRef' = retryTimeoutRef

\* C28 as claimed: a camera switch to device d, made in a view whose effects
\* have run, stops every decode loop that is running and re-enters
\* Initializing with d: after the step no decode loop runs, isInitializing
\* is true, isRunning is false and the new call of initializeScanner starts
\* the selected camera d.
C28_SwitchStopsAndReinitializes ==
    [][ (SwitchStep /\ effectDeps = Deps)
        => /\ Scanning' = {}
           /\ scannerState'.isInitializing
           /\ ~scannerState'.isRunning
           /\ instances'[Len(instances')].cameraId = selectedCameraId'
           /\ instances'[Len(instances')].pc = "starting" ]_vars

\* line 746: the notice of toggleFlash for a camera without a torch
TorchNotice == "Flash/Torch functionality not supported by this camera."

\* a step of toggleFlash that changes the state: flashOn flips (stop().then
\* only clears it, as its promise settles) or the notice is set
FlashStep ==
    /\ stopping' = stopping
    /\ \/ scannerState'.flashOn # scannerState.flashOn
       \/ scannerState'.error = TorchNotice /\ scannerState.error # TorchNotice

\* C29 as claimed: toggleFlash, in a view whose effects have run, changes
\* the state only while the session is Active, and leaves it Active; it
\* flips flashOn only on a camera with a torch, together with the torch;
\* on a camera without one flashOn keeps its value.
C29_TorchOnlyWhileActive ==
    [][ (FlashStep /\ effectDeps = Deps)
        => /\ SessionStates(scannerState) = {"Active"}
           /\ SessionStates(scannerState') = {"Active"}
           /\ IF instances[html5QrCodeRef].cameraId \in TorchCameras
              THEN /\ scannerState'.flashOn # scannerState.flashOn
                   /\ instances'[html5QrCodeRef].torch = scannerState'.flashOn
              ELSE scannerState'.flashOn = scannerState.flashOn ]_vars

-----------------------------------------------------------------------------
\* The import parser of RosterDisplay (parseRosterData, lines 219-250). A
\* text is a sequence of characters, each a string of length one.

\* texts tried: every text of at most MaxTextLen characters of Alphabet
MaxTextLen == 5

\* a letter, a digit, the dot, the comma, the space and the line feed
Alphabet == {"A", "1", ".", ",", " ", "\n"}

\* what String.prototype.trim removes and \s matches
WhiteSpace == {" ", "\t", "\r", "\n"}

\* what \d matches
Digits == {"0", "1", "2", "3", "4", "5", "6", "7", "8", "9"}

\* the import example of the format description
ExampleText ==
    << "R", "C", "-", "1", "0", "0", "1", ",", "A", "l", "f", "i", "e",
       " ", "J", "o", "h", "n", "s", "o", "n", "\n", ",", ",", "\n", "R",
       "C", "-", "1", "0", "0", "2", ",", "J", "a", "n", "e", " ", "S",
       "m", "i", "t", "h", ",", "," >>

\* a spreadsheet export with numbered names, CRLF line ends and an empty row
ExportText ==
    << "R", "C", "-", "7", ",", " ", "1", ".", "D", "e", "a", "n", " ",
       "O", "w", "e", "n", "s", ",", "\r", "\n", "\r", "\n", "R", "C", "-",
       "8", ",", "2", ".", " ", "A", ",", ",", ",", "\r", "\n", "7" >>

Texts ==
    UNION {[1..n -> Alphabet] : n \in 0..MaxTextLen} \cup {ExampleText, ExportText}

RECURSIVE trimStart(_)
trimStart(s) ==
    IF s # <<>> /\ Head(s) \in WhiteSpace THEN trimStart(Tail(s)) ELSE s

RECURSIVE trimEnd(_)
trimEnd(s) ==
    IF s # <<>> /\ s[Len(s)] \in WhiteSpace
    THEN trimEnd(SubSeq(s, 1, Len(s) - 1))
    ELSE s

\* String.prototype.trim
trim(s) == trimEnd(trimStart(s))

\* String.prototype.split for a separator of one character: one part more
\* than there are separators, so the empty text gives one empty part
RECURSIVE split(_, _)
split(s, sep) ==
    IF \E i \in 1..Len(s) : s[i] = sep
    THEN LET i == CHOOSE i \in 1..Len(s) :
                     s[i] = sep /\ \A j \in 1..(i - 1) : s[j] # sep
         IN  <<SubSeq(s, 1, i - 1)>> \o split(SubSeq(s, i + 1, Len(s)), sep)
    ELSE <<s>>

\* lines 232-234: parts.pop() while a third or later part is empty
RECURSIVE popEmpty(_)
popEmpty(parts) ==
    IF Len(parts) > 2 /\ parts[Len(parts)] = <<>>
    THEN popEmpty(SubSeq(parts, 1, Len(parts) - 1))
    ELSE parts

\* the digits a text begins with
RECURSIVE LeadingDigits(_)
LeadingDigits(s) ==
    IF s # <<>> /\ Head(s) \in Digits THEN 1 + LeadingDigits(Tail(s)) ELSE 0

\* line 242: name.replace(/^(\d+\.?\s?)/, '').trim(): without a leading
\* digit nothing matches; else the match is all leading digits, a dot if one
\* follows, and one white-space character if one follows
cleanName(name) ==
    LET d == LeadingDigits(name)
        afterDigits == SubSeq(name, d + 1, Len(name))
        afterDot == IF afterDigits # <<>> /\ Head(afterDigits) = "."
                    THEN Tail(afterDigits) ELSE afterDigits
        afterSpace == IF afterDot # <<>> /\ Head(afterDot) \in WhiteSpace
                      THEN Tail(afterDot) ELSE afterDot
    IN  trim(IF d = 0 THEN name ELSE afterSpace)

\* parseLine without the test of line 245: every line that gives no entry
\* is counted as an error
parseLine_countsBlank(line) ==
    LET raw == split(line, ",")
        parts == popEmpty([i \in 1..Len(raw) |-> trim(raw[i])])
    IN  IF Len(parts) >= 2 /\ parts[1] # <<>> /\ parts[2] # <<>>
        THEN [kind |-> "entry", id |-> parts[1], name |-> cleanName(parts[2])]
        ELSE [kind |-> "error", id |-> <<>>, name |-> <<>>]

\* lines 226-247: the body of the loop for one line: an entry is pushed,
\* errorCount is incremented, or neither
parseLine(line) ==
    LET raw == split(line, ",")
        parts == popEmpty([i \in 1..Len(raw) |-> trim(raw[i])])
    IN  IF Len(parts) >= 2 /\ parts[1] # <<>> /\ parts[2] # <<>>
        THEN [kind |-> "entry", id |-> parts[1], name |-> cleanName(parts[2])]
        ELSE IF trim(line) # <<>>
        THEN [kind |-> "error", id |-> <<>>, name |-> <<>>]
        ELSE [kind |-> "blank", id |-> <<>>, name |-> <<>>]

\* the entries pushed for a sequence of line outcomes, in order
RECURSIVE Pushed(_)
Pushed(outcomes) ==
    IF outcomes = <<>> THEN <<>>
    ELSE (IF Head(outcomes).kind = "entry"
          THEN <<[id |-> Head(outcomes).id, name |-> Head(outcomes).name]>>
          ELSE <<>>) \o Pushed(Tail(outcomes))

\* lines 219-250
parseRosterData(text) ==
    LET lines == split(trim(text), "\n")
        outcomes == [i \in 1..Len(lines) |-> parseLine(lines[i])]
    IN  [ rosterData |-> Pushed(outcomes),
          errorCount |-> Cardinality({i \in 1..Len(lines) :
                                         outcomes[i].kind = "error"}) ]

\* lines 298-301: the Upload button parses the text area and hands the
\* result to executeRosterUpload, which returns at once without a db (253)
handleTextUpload ==
    /\ parsed = <<>>
    /\ ~db
    /\ parsed' = <<parseRosterData(newRosterText)>>
    /\ UNCHANGED <<newRosterText, remote, clock, db, roster, listener, notify,
                   lastDelivered, tasks, toggled, faults, scope, retryVars,
                   scanVars>>

\* SpecParse: RosterDisplay with a text in its text area, before sign-in.
InitParse ==
    /\ RetryIdle
    /\ ScanIdle
    /\ remote = [k \in DocKeys |-> NoDoc]
    /\ clock = 0
    /\ db = FALSE
    /\ roster = <<>>
    /\ listener = "none"
    /\ notify = FALSE
    /\ lastDelivered = [any |-> FALSE, docs |-> <<>>]
    /\ tasks = <<>>
    /\ toggled = [k \in DocKeys |-> <<>>]
    /\ faults = 0
    /\ scope = [seeds |-> 0, events |-> 0]
    /\ newRosterText \in Texts
    /\ parsed = <<>>

NextParse == handleTextUpload

SpecParse == InitParse /\ [][NextParse]_vars

-----------------------------------------------------------------------------
\* Claims about the import parser.

\* a text with a character that is not white space
HasText(s) == \E k \in 1..Len(s) : s[k] \notin WhiteSpace

\* the field of a line before its first comma, and the field after it
FirstField(line) ==
    IF \E k \in 1..Len(line) : line[k] = ","
    THEN SubSeq(line, 1, (CHOOSE k \in 1..Len(line) :
                            line[k] = "," /\ \A j \in 1..(k - 1) : line[j] # ",") - 1)
    ELSE line

SecondField(line) ==
    LET rest == SubSeq(line, Len(FirstField(line)) + 2, Len(line))
    IN  FirstField(rest)

\* a line with a comma whose first two fields both hold text
YieldsEntry(line) ==
    /\ \E k \in 1..Len(line) : line[k] = ","
    /\ HasText(FirstField(line))
    /\ HasText(SecondField(line))

\* the lines of the text that was typed, as the user sees them
TypedLines == split(newRosterText, "\n")

\* the k-th of the lines that yield an entry
EntryLine(k) ==
    LET idx == {i \in 1..Len(TypedLines) : YieldsEntry(TypedLines[i])}
    IN  TypedLines[CHOOSE i \in idx : Cardinality({j \in idx : j < i}) = k - 1]

C31_EntriesHaveIdAndName ==
    parsed # <<>> =>
       \A k \in 1..Len(parsed[1].rosterData) :
          /\ parsed[1].rosterData[k].id # <<>>
          /\ parsed[1].rosterData[k].name # <<>>

\* the field of the name as parseRosterData has it before line 242: the
\* trimmed second field of the line that gave the k-th entry
NameField(k) == trim(SecondField(EntryLine(k)))

\* a name that begins with one or more digits followed by a dot
HasNumberPrefix(name) ==
    /\ LeadingDigits(name) > 0
    /\ LeadingDigits(name) < Len(name)
    /\ name[LeadingDigits(name) + 1] = "."

\* C32 as claimed: the name of an entry is its name field without a leading
\* "N." prefix (digits, a dot, and one following space if there is one),
\* trimmed; a name field that does not begin with digits followed by a dot
\* is the name as it is. Stated for the entries whose name is not empty.
C32_OnlyNumberPrefixIsStripped ==
    parsed # <<>> =>
       \A k \in 1..Len(parsed[1].rosterData) :
          LET field == NameField(k)
              d == LeadingDigits(field)
              rest == SubSeq(field, d + 2, Len(field))
          IN  parsed[1].rosterData[k].name # <<>> =>
              parsed[1].rosterData[k].name =
                 IF HasNumberPrefix(field)
                 THEN trim(IF rest # <<>> /\ Head(rest) = " " THEN Tail(rest) ELSE rest)
                 ELSE field

-----------------------------------------------------------------------------
\* Claims about the phases of a bulk replace.

\* C33 as claimed: when executeRosterUpload has reported the failure of its
\* delete phase or of its create phase, no call of that phase is still in
\* flight.
C33_FailureReportedAfterCallsSettled ==
    \A t \in 1..Len(tasks) :
       ( /\ tasks[t].kind = "upload"
         /\ tasks[t].pc = "done"
         /\ tasks[t].msgs # <<>>
         /\ tasks[t].msgs[Len(tasks[t].msgs)] = Msg("error", "critical", "none", "none") )
       => \A i \in 1..Len(tasks[t].calls) : tasks[t].calls[i] # "pending"

-----------------------------------------------------------------------------
\* Claims about the selection of a camera.

\* the label holds one of the words back, rear, environment, each letter
\* in either case
NamesBackCamera(label) ==
    \E word \in { <<"b", "a", "c", "k">>, <<"r", "e", "a", "r">>,
                  <<"e", "n", "v", "i", "r", "o", "n", "m", "e", "n", "t">> } :
       \E at \in 0..(Len(label) - Len(word)) :
          \A k \in 1..Len(word) :
             \E u \in 1..26 :
                /\ LowerCase[u] = word[k]
                /\ label[at + k] \in {LowerCase[u], UpperCase[u]}

\* the calls of initializeScanner for which detectCameras chose a camera
Detected == {i \in 1..Len(instances) : instances[i].availableCameras # <<>>}

\* C34: for every non-empty list of devices detectCameras chooses the
\* first device whose label holds back, rear or environment in any case;
\* without such a device the second device of a list of several and the
\* only device of a list of one; the id chosen is the id of a device of
\* the list, and it is the camera that start() is called with.
C34_CameraSelection ==
    \A i \in Detected :
       LET list == instances[i].availableCameras
           chosen == instances[i].cameraId
           named == {k \in 1..Len(list) : NamesBackCamera(list[k].label)}
       IN  /\ \E k \in 1..Len(list) : list[k].id = chosen
           /\ named # {} =>
                 \E k \in named : /\ list[k].id = chosen
                                  /\ \A j \in named : k <= j
           /\ (named = {} /\ Len(list) > 1) => chosen = list[2].id
           /\ (named = {} /\ Len(list) = 1) => chosen = list[1].id

\* a list of three devices whose third is the first to name a back camera
\* has been handled, and start() was called with that device
C34_Witness ==
    \E i \in Detected :
       LET list == instances[i].availableCameras
       IN  /\ Len(list) = 3
           /\ ~NamesBackCamera(list[1].label)
           /\ ~NamesBackCamera(list[2].label)
           /\ NamesBackCamera(list[3].label)
           /\ instances[i].pc = "scanning"
           /\ instances[i].cameraId = list[3].id

\* a list of several devices of which none names a back camera has been
\* handled
C34_WitnessFallback ==
    \E i \in Detected :
       LET list == instances[i].availableCameras
       IN  /\ Len(list) > 1
           /\ \A k \in 1..Len(list) : ~NamesBackCamera(list[k].label)
           /\ instances[i].cameraId = list[2].id

-----------------------------------------------------------------------------
\* Claims about the retry of the error panel.

\* a step of the Retry Camera button: a call of initializeScanner, made
\* while an error is shown, that comes neither from the mount effect nor
\* from the timer of checkAndInit and selects no other camera
RetryStep ==
    /\ SwitchStep
    /\ scannerState.error # "null"
    /\ selectedCameraId' = selectedCameraId

-----------------------------------------------------------------------------
\* SpecReset: the App with one more user operation than Spec, where
\* handleReset is confirmed only while no other invocation is under way and
\* no other operation starts before it is over: the resets that run with
\* no other writer active.
ResetRunEvents == 3

\* the uploads of SpecReset: the files of one entry
ResetRunUploads == {d \in UploadInputs : Len(d) = 1}

\* every invocation is over, with no call in flight
AllSettled ==
    \A u \in 1..Len(tasks) :
       /\ tasks[u].pc = "done"
       /\ \A i \in 1..Len(tasks[u].calls) : tasks[u].calls[i] # "pending"

\* no confirmed handleReset is under way
NoResetUnderWay ==
    \A u \in 1..Len(tasks) : tasks[u].kind = "reset" => tasks[u].pc = "done"

InitReset ==
    /\ RetryIdle
    /\ ScanIdle
    /\ ParseIdle
    /\ scope = [seeds |-> MaxSeed, events |-> ResetRunEvents]
    /\ remote \in InitRemotes
    /\ clock = 1
    /\ db = FALSE
    /\ roster = <<>>
    /\ listener = "none"
    /\ notify = FALSE
    /\ lastDelivered = [any |-> FALSE, docs |-> <<>>]
    /\ tasks = <<>>
    /\ toggled = [k \in DocKeys |-> <<>>]
    /\ faults = 0

NextReset ==
    \/ onAuthStateChanged
    \/ RosterEffect
    \/ ListenerTimeout
    \/ DeliverSnapshot
    \/ \E t \in 1..Len(tasks) : SeedStep(t)
    \/ \E i \in 1..Len(roster) : NoResetUnderWay /\ handleManualStatusToggle(i)
    \/ \E t \in 1..Len(tasks) : ToggleSettles(t)
    \/ \E t \in 1..Len(tasks) : TaskTimer(t)
    \/ AllSettled /\ handleReset(TRUE)
    \/ \E d \in ResetRunUploads : NoResetUnderWay /\ executeRosterUpload(d, TRUE)
    \/ \E t \in 1..Len(tasks) : UploadRead(t)
    \/ \E t \in 1..Len(tasks) : \E i \in 1..Len(tasks[t].calls) : CallSettles(t, i)
    \/ \E t \in 1..Len(tasks) : BatchAwait(t)

SpecReset == InitReset /\ [][NextReset]_vars

-----------------------------------------------------------------------------
\* Claims about handleReset.

\* the handleReset invocations that were confirmed and whose
\* retryOperation has returned
ResetsDone == {t \in 1..Len(tasks) :
                 /\ tasks[t].kind = "reset"
                 /\ tasks[t].pc = "done"
                 /\ tasks[t].r.pc = "returned"}

\* the confirmed handleReset invocations that are over with success and
\* after which no operation was started
ResetsJustDone == {t \in ResetsDone : t = Len(tasks) /\ tasks[t].r.result.ok}

\* C36: when a handleReset that ran with no other writer active is over
\* with success, every document of the collection has status absent and
\* lastScan null.
C36_ResetClearsAttendance ==
    \A t \in ResetsJustDone :
       AllSettled =>
          \A k \in DocKeys :
             remote[k] # NoDoc =>
                remote[k].status = "absent" /\ remote[k].lastScan = Null

\* each write of handleReset changes the status and the lastScan of its
\* document and nothing else (name, id and createdAt stay)
ResetWritesStatusOnly ==
    [][ \A t \in 1..Len(tasks) : \A i \in 1..Len(tasks[t].calls) :
           ( /\ tasks[t].kind = "reset"
             /\ tasks[t].calls[i] = "pending"
             /\ tasks'[t].calls[i] = "ok" )
           => LET key == tasks[t].targets[i].id
              IN  /\ remote'[key].status = "absent"
                  /\ remote'[key].lastScan = Null
                  /\ remote'[key].name = remote[key].name
                  /\ remote'[key].id = remote[key].id
                  /\ remote'[key].createdAt = remote[key].createdAt
                  /\ \A k \in DocKeys \ {key} : remote'[k] = remote[k] ]_vars

\* a handleReset that is declined issues no call and changes no document
DeclinedResetWritesNothing ==
    [][ ( /\ Len(tasks') = Len(tasks) + 1
          /\ Started.kind = "reset"
          /\ Started.pc = "done" )
        => /\ remote' = remote
           /\ Started.calls = <<>> ]_vars

-----------------------------------------------------------------------------
\* Claims about the isRunning flag.

\* C37: in a mounted view, whenever a decode loop runs and initialization
\* has finished isRunning is true; whenever isRunning is true a decode loop
\* runs; and the promise of a stop() that is fulfilled while a session that
\* was started later is scanning leaves isRunning true.
C37_IsRunningTracksDecodeLoop ==
    /\ []( (mounted /\ Scanning # {} /\ ~scannerState.isInitializing)
              => scannerState.isRunning )
    /\ []( (mounted /\ scannerState.isRunning) => Scanning # {} )
    /\ [][ ( /\ mounted
             /\ stopping' = stopping - 1
             /\ html5QrCodeRef # Null
             /\ instances[html5QrCodeRef].pc = "scanning"
             /\ scannerState.isRunning )
           => scannerState'.isRunning ]_vars

-----------------------------------------------------------------------------
\* Claims about seedRoster and the documents that exist.

\* C38: a write of seedRoster to a document that exists leaves its
\* createdAt, and leaves the status and the lastScan that a toggle wrote.
C38_SeedKeepsExistingDocuments ==
    [][ \A t \in Seeds :
           SeedWrote(t)
           => LET key == INITIAL_ROSTER[tasks[t].k].id
              IN  remote[key] # NoDoc
                  => /\ remote'[key].createdAt = remote[key].createdAt
                     /\ toggled[key] # <<>>
                        => /\ remote'[key].status = remote[key].status
                           /\ remote'[key].lastScan = remote[key].lastScan ]_vars

-----------------------------------------------------------------------------
\* SpecDebounce: one mounted EnhancedScannerView with the library loaded,
\* in front of which two different QR codes are held.
DebounceInits == 3
DebounceDecodes == 2
DebounceTime == 4000

\* what the two QR codes decode to
TwoCodes == {"RC-1001", "RC-1002"}

InitDebounce ==
    /\ RetryIdle
    /\ ParseIdle
    /\ remote = [k \in DocKeys |-> NoDoc]
    /\ clock = 0
    /\ db = FALSE
    /\ roster = <<>>
    /\ listener = "none"
    /\ notify = FALSE
    /\ lastDelivered = [any |-> FALSE, docs |-> <<>>]
    /\ tasks = <<>>
    /\ toggled = [k \in DocKeys |-> <<>>]
    /\ faults = 0
    /\ scope = [seeds |-> 0, events |-> 0, inits |-> DebounceInits,
                decodes |-> DebounceDecodes, time |-> DebounceTime]
    /\ scannerState = InitialScannerState
    /\ selectedCameraId = Null
    /\ libLoaded = TRUE
    /\ mounted = TRUE
    /\ effectDeps = NoClosure
    /\ retryTimeoutRef = FALSE
    /\ instances = <<>>
    /\ html5QrCodeRef = Null
    /\ stopping = 0
    /\ timers = <<>>
    /\ now = 1000
    /\ decodes = <<>>

NextDebounce ==
    \/ MountEffect
    \/ \E i \in 1..Len(instances) : \E cam \in CameraIds : DetectDone(i, cam)
    \/ \E i \in 1..Len(instances) : StartDone(i)
    \/ \E fulfilled \in BOOLEAN : StopDone(fulfilled)
    \/ \E i \in 1..Len(instances) : \E text \in TwoCodes : onScanSuccess(i, text)
    \/ ResumeTimer
    \/ Tick

SpecDebounce == InitDebounce /\ [][NextDebounce]_vars

\* the decodes that onScanSuccess handed to handleScanSuccess
Accepted == {k \in 1..Len(decodes) : decodes[k].accepted}

\* C39: a decode of any code, the same as the last accepted one or another,
\* that arrives less than 2000 ms after an accepted decode is discarded; an
\* accepted decode adds one to scanCount and sets lastScanTime to its
\* arrival time; and scanCount is the number of decodes handed to
\* handleScanSuccess.
C39_DebounceIgnoresPayload ==
    /\ [](\A j, k \in 1..Len(decodes) :
             (j < k /\ decodes[j].accepted /\ decodes[k].t - decodes[j].t < DebounceMs)
             => ~decodes[k].accepted)
    /\ [][ (Len(decodes') = Len(decodes) + 1 /\ decodes'[Len(decodes')].accepted)
           => /\ scannerState'.scanCount = scannerState.scanCount + 1
              /\ scannerState'.lastScanTime = decodes'[Len(decodes')].t
              /\ decodes'[Len(decodes')].t = now ]_vars
    /\ [](scannerState.scanCount = Cardinality(Accepted))

=============================================================================
